---- MODULE Spec2Model ----
(***************************************************************************)
(* Mood aggregation and synchronisation engine of the Zenora wellness app. *)
(*                                                                         *)
(* The module models, from the page sources,                               *)
(*   - Zenora.tsx     : analyzeLocalMood, the mood tracker state, its load *)
(*                      and save effects, handleSendMessage, addMotivation *)
(*   - Insights.tsx   : updateFromStorage, calculateAverageMood, the       *)
(*                      metric load/save effects                           *)
(*   - Dashboard.tsx  : fetchStreak / calculateStreak                      *)
(*   - MoodContext.tsx: MoodProvider                                       *)
(*                                                                         *)
(* Strings whose content the code inspects are sequences of one-character  *)
(* strings, so that toLowerCase, includes, charAt/slice and template       *)
(* strings are computed character by character.  An emoji is one such      *)
(* character, written by its code point name.                              *)
(***************************************************************************)
EXTENDS Integers, Sequences, FiniteSets, TLC

VARIABLES
    \* ---- Zenora.tsx: classifier harness ----
    message,        \* the text handed to analyzeLocalMood
    localMood,      \* its result, None before the call
    \* ---- Dashboard.tsx ----
    moodEntries,    \* created_at instants of the rows of table mood_entries
    clock,          \* the current instant (slots since the epoch, local time)
    streak,         \* Dashboard state `streak`
    streakFresh,    \* TRUE while `streak` was computed from the current rows and clock
    \* ---- Insights.tsx: calculateAverageMood harness ----
    data,           \* the MoodEntry[] handed to calculateAverageMood
    average,        \* its result (in tenths), None before the call
    \* ---- localStorage and the calendar ----
    lsZenoraMood,   \* localStorage["zenora-mood"]: None, or Some(JSON text)
    lsInsightsData, \* localStorage["insightsData"]: None, or Some(JSON text)
    today,          \* new Date().toISOString().split("T")[0], as a day number
    \* ---- Zenora.tsx: one screen per browser tab ----
    zMounted,       \* [tab -> BOOLEAN]
    zMoodData,      \* [tab -> MoodData]: state `moodData` of the mounted screen
    zPending,       \* [tab -> Seq(update)]: state updates queued, not yet rendered
    zLoading,       \* [tab -> BOOLEAN]: state `isLoading`
    zRequest,       \* [tab -> None | Some(call)]: handleSendMessage awaiting ai-chat
    zOrphan,        \* [tab -> None | Some(call)]: the same, its screen unmounted meanwhile
    zReplies,       \* [tab -> Nat]: assistant messages appended to `messages` for the
                    \* latest submission of the screen
    zToasts,        \* [tab -> SUBSET toasts]: the toasts raised for the latest submission
    \* ---- Insights.tsx ----
    insMounted,     \* BOOLEAN
    insMoodData,    \* state `moodData`: Seq(MoodEntry); while the screen is
                    \* unmounted, what it held when it unmounted
    insAverageMood, \* state `averageMood`, in tenths
    insStreak,        \* state `streak`
    insTimePracticed, \* state `timePracticed`
    insExercises,     \* state `exercises`
    insIntervals,   \* the setInterval timers of updateFromStorage that are active
    insListeners,   \* the "storage" listeners of updateFromStorage on the window
    \* ---- history of the run, read by the properties only ----
    lastSignal,     \* None, or Some(the mood signal produced most recently)
    insLast,        \* "stale" once anything happened since updateFromStorage last
                    \* ran; until then what its filter removed: "none", or an
                    \* entry of today "same" as or "different" from the new one
    insRecorded,    \* the dates updateFromStorage recorded since Insights mounted
    thrown,         \* the readers of localStorage that raised an exception nobody caught
    \* ---- MoodContext.tsx: one MoodProvider per browser tab ----
    lsTodayMood,    \* localStorage["zenora_today_mood"]: None, or Some(JSON text)
    pMounted,       \* [tab -> BOOLEAN]
    pMood,          \* [tab -> None | Some(MoodPayload)]: state `mood`
    pEffect,        \* [tab -> BOOLEAN]: the [mood] effect is due
    pEvent,         \* [tab -> None | Some(event)]: the last event dispatched on the window
    \* ---- MoodContext.tsx: the Exercises page and table user_progress ----
    userProgress,   \* the row of the user in user_progress: None, or Some(row)
    exDay,          \* the calendar day, as a day number
    exMounted,      \* BOOLEAN: the Exercises page is open
    progress,       \* state `progress`: None, or Some(the three counters)
    exCalls,        \* [call -> handleExerciseComplete]: where each call stands
    exFetching,     \* the calls of fetchProgress whose select has not been answered
    exInits         \* the days on which an initialising upsert was sent that has
                    \* not reached the table yet

classifyVars == <<message, localMood>>
dashVars     == <<moodEntries, clock, streak, streakFresh>>
averageVars  == <<data, average>>
talkVars     == <<zReplies, zToasts>>
storageVars  == <<lsZenoraMood, lsInsightsData, today>>
zenoraVars   == <<zMounted, zMoodData, zPending, zLoading, zRequest, zOrphan, talkVars>>
metricVars   == <<insStreak, insTimePracticed, insExercises>>
timerVars    == <<insIntervals, insListeners>>
insightsVars == <<insMounted, insMoodData, insAverageMood, metricVars, timerVars>>
historyVars  == <<lastSignal, insLast, insRecorded, thrown>>
engineVars   == <<storageVars, zenoraVars, insightsVars, historyVars>>
providerVars == <<lsTodayMood, pMounted, pMood, pEffect, pEvent>>
exerciseVars == <<userProgress, exDay, exMounted, progress, exCalls, exFetching, exInits>>
vars         == <<classifyVars, dashVars, averageVars, engineVars, providerVars, exerciseVars>>

\* An optional value is a sequence of length at most one.
None      == <<>>
Some(x)   == <<x>>
IsSome(o) == o # <<>>
Get(o)    == o[1]

\* ------------------------------------------------------------------------
\* Characters and strings
\* ------------------------------------------------------------------------
UpperLetters ==
    <<"A","B","C","D","E","F","G","H","I","J","K","L","M",
      "N","O","P","Q","R","S","T","U","V","W","X","Y","Z">>

LowerLetters ==
    <<"a","b","c","d","e","f","g","h","i","j","k","l","m",
      "n","o","p","q","r","s","t","u","v","w","x","y","z">>

\* String.prototype.toLowerCase on one character
LowerChar(c) ==
    IF \E i \in DOMAIN UpperLetters : UpperLetters[i] = c
    THEN LowerLetters[CHOOSE i \in DOMAIN UpperLetters : UpperLetters[i] = c]
    ELSE c

\* String.prototype.toUpperCase on one character
UpperChar(c) ==
    IF \E i \in DOMAIN LowerLetters : LowerLetters[i] = c
    THEN UpperLetters[CHOOSE i \in DOMAIN LowerLetters : LowerLetters[i] = c]
    ELSE c

toLowerCase(s) == [i \in 1..Len(s) |-> LowerChar(s[i])]

\* String.prototype.includes(needle)
includes(s, needle) ==
    \E i \in 1..(Len(s) - Len(needle) + 1) :
        SubSeq(s, i, i + Len(needle) - 1) = needle

\* ------------------------------------------------------------------------
\* Zenora.tsx: analyzeLocalMood
\* ------------------------------------------------------------------------
EmojiSad     == "U+1F614"
EmojiAngry   == "U+1F621"
EmojiHappy   == "U+1F60A"
EmojiAnxious == "U+1F630"
EmojiCalm    == "U+1F60C"
EmojiNeutral == "U+1F642"

kwSad     == <<"s","a","d">>
kwTired   == <<"t","i","r","e","d">>
kwUpset   == <<"u","p","s","e","t">>
kwAngry   == <<"a","n","g","r","y">>
kwMad     == <<"m","a","d">>
kwHappy   == <<"h","a","p","p","y">>
kwGreat   == <<"g","r","e","a","t">>
kwGood    == <<"g","o","o","d">>
kwAnxious == <<"a","n","x","i","o","u","s">>
kwWorried == <<"w","o","r","r","i","e","d">>
kwRelax   == <<"r","e","l","a","x">>
kwCalm    == <<"c","a","l","m">>

MoodSad     == <<"S","a","d">>
MoodAngry   == <<"A","n","g","r","y">>
MoodHappy   == <<"H","a","p","p","y">>
MoodAnxious == <<"A","n","x","i","o","u","s">>
MoodCalm    == <<"C","a","l","m">>
MoodNeutral == <<"N","e","u","t","r","a","l">>

\* A classifier that forgets to lower-case its input.
analyzeLocalMoodCaseSensitive(msg) ==
    LET lower == msg IN
    IF includes(lower, kwSad) \/ includes(lower, kwTired) \/ includes(lower, kwUpset)
    THEN [emoji |-> EmojiSad, mood |-> MoodSad, score |-> 45]
    ELSE IF includes(lower, kwAngry) \/ includes(lower, kwMad)
    THEN [emoji |-> EmojiAngry, mood |-> MoodAngry, score |-> 35]
    ELSE IF includes(lower, kwHappy) \/ includes(lower, kwGreat) \/ includes(lower, kwGood)
    THEN [emoji |-> EmojiHappy, mood |-> MoodHappy, score |-> 85]
    ELSE IF includes(lower, kwAnxious) \/ includes(lower, kwWorried)
    THEN [emoji |-> EmojiAnxious, mood |-> MoodAnxious, score |-> 55]
    ELSE IF includes(lower, kwRelax) \/ includes(lower, kwCalm)
    THEN [emoji |-> EmojiCalm, mood |-> MoodCalm, score |-> 80]
    ELSE [emoji |-> EmojiNeutral, mood |-> MoodNeutral, score |-> 70]

analyzeLocalMood(msg) ==
    LET lower == toLowerCase(msg) IN
    IF includes(lower, kwSad) \/ includes(lower, kwTired) \/ includes(lower, kwUpset)
    THEN [emoji |-> EmojiSad, mood |-> MoodSad, score |-> 45]
    ELSE IF includes(lower, kwAngry) \/ includes(lower, kwMad)
    THEN [emoji |-> EmojiAngry, mood |-> MoodAngry, score |-> 35]
    ELSE IF includes(lower, kwHappy) \/ includes(lower, kwGreat) \/ includes(lower, kwGood)
    THEN [emoji |-> EmojiHappy, mood |-> MoodHappy, score |-> 85]
    ELSE IF includes(lower, kwAnxious) \/ includes(lower, kwWorried)
    THEN [emoji |-> EmojiAnxious, mood |-> MoodAnxious, score |-> 55]
    ELSE IF includes(lower, kwRelax) \/ includes(lower, kwCalm)
    THEN [emoji |-> EmojiCalm, mood |-> MoodCalm, score |-> 80]
    ELSE [emoji |-> EmojiNeutral, mood |-> MoodNeutral, score |-> 70]

\* ------------------------------------------------------------------------
\* Dashboard.tsx: fetchStreak / calculateStreak
\*
\* An instant is a number of slots since the epoch, in local time; a calendar
\* day holds one slot per element of DaySlots.  A date string (toDateString)
\* is the number of the calendar day.
\* ------------------------------------------------------------------------
DaySlots    == {"am", "pm"}
SlotsPerDay == Cardinality(DaySlots)

MaxDays == 5        \* the clock runs over the days 0 .. MaxDays-1
MaxRows == 5        \* rows of mood_entries

\* Date.prototype.toDateString: the local calendar day of an instant
toDateString(t) == t \div SlotsPerDay

\* new Date(dateString): local midnight of that calendar day
DateFromString(d) == d * SlotsPerDay

\* Date.prototype.setDate(getDate() - 1)
PreviousDay(t) == t - SlotsPerDay

\* .order('created_at', { ascending: false })
RECURSIVE OrderDescending(_)
OrderDescending(S) ==
    IF S = {} THEN <<>>
    ELSE LET m == CHOOSE x \in S : \A y \in S : y <= x
         IN  <<m>> \o OrderDescending(S \ {m})

\* data.map((x) => new Date(x.created_at).toDateString())
DateStrings(rows) == [i \in 1..Len(rows) |-> toDateString(rows[i])]

\* Array.from(new Set(xs)): first occurrences, in order
RECURSIVE ArrayFromSet(_)
ArrayFromSet(xs) ==
    IF xs = <<>> THEN <<>>
    ELSE LET init == SubSeq(xs, 1, Len(xs) - 1)
             last == xs[Len(xs)]
         IN  IF \E i \in 1..Len(init) : init[i] = last
             THEN ArrayFromSet(init)
             ELSE Append(ArrayFromSet(init), last)

\* the loop of calculateStreak: dates still to visit, currentDate, streak so far
RECURSIVE StreakLoop(_, _, _)
StreakLoop(dates, currentDate, n) ==
    IF dates = <<>> THEN n
    ELSE LET entryDate == DateFromString(Head(dates))
         IN  IF toDateString(entryDate) = toDateString(currentDate)
             THEN StreakLoop(Tail(dates), PreviousDay(currentDate), n + 1)
             ELSE n

calculateStreak(dates, now) == StreakLoop(dates, now, 0)

\* fetchStreak without the Set: one date per row.
uniqueDatesNoSet(rows) == DateStrings(OrderDescending(rows))

\* uniqueDates of fetchStreak
uniqueDates(rows) == ArrayFromSet(DateStrings(OrderDescending(rows)))

\* ------------------------------------------------------------------------
\* Insights.tsx: MoodEntry, calculateAverageMood
\*
\* A MoodEntry is [date, mood, value].  Numbers with one decimal place
\* (averageMood) are held in tenths: 42 is 4.2.
\* ------------------------------------------------------------------------
MoodEntry(date, mood, value) == [date |-> date, mood |-> mood, value |-> value]

\* data.reduce((acc, d) => acc + d.value, 0)
RECURSIVE ReduceValues(_, _)
ReduceValues(entries, acc) ==
    IF entries = <<>> THEN acc
    ELSE ReduceValues(Tail(entries), acc + Head(entries).value)

\* parseFloat((sum / n).toFixed(1)), in tenths: toFixed picks the nearest
\* tenth and the larger one of two equally near
ToFixed1(sum, n) == (20 * sum + n) \div (2 * n)

\* a version that cuts the decimals off instead of rounding
calculateAverageMoodTruncating(entries) ==
    IF Len(entries) = 0 THEN 0
    ELSE (10 * ReduceValues(entries, 0)) \div Len(entries)

calculateAverageMood(entries) ==
    IF Len(entries) = 0 THEN 0
    ELSE ToFixed1(ReduceValues(entries, 0), Len(entries))

\* ------------------------------------------------------------------------
\* Zenora.tsx: MoodData, its JSON text, the moods a chat exchange produces
\* ------------------------------------------------------------------------
Tabs == {"tab1", "tab2"}

\* `${emoji} ${mood}`
TodayMoodString(emoji, mood) == <<emoji, " ">> \o mood

\* the initial value of state moodData
DefaultMoodData ==
    [ moodScore  |-> 75,
      todayMood  |-> TodayMoodString(EmojiHappy, MoodHappy),
      motivation |-> << "Keep growing every day!",
                        "You're stronger than you think.",
                        "Small steps make a big difference." >> ]

\* JSON.stringify(moodData): the text of an object with these three keys
StringifyMoodData(md) ==
    { <<"moodScore", md.moodScore>>,
      <<"todayMood", md.todayMood>>,
      <<"motivation", md.motivation>> }

\* a stored text that is no JSON: JSON.parse throws a SyntaxError on it
NotJson == { <<"", "not json">> }
IsJson(text) == text # NotJson

\* the value of key k of a parsed JSON object text
JsonField(text, k) == (CHOOSE kv \in text : kv[1] = k)[2]

\* JSON.parse of the text of a MoodData
ParseMoodData(text) ==
    [ moodScore  |-> JsonField(text, "moodScore"),
      todayMood  |-> JsonField(text, "todayMood"),
      motivation |-> JsonField(text, "motivation") ]

\* an update that sets the score and forgets the label
WithLocalMoodScoreOnly(prev, m) == [prev EXCEPT !.moodScore = m.score]

\* { ...prev, moodScore: m.score, todayMood: `${m.emoji} ${m.mood}` }
WithLocalMood(prev, m) ==
    [prev EXCEPT !.moodScore = m.score,
                 !.todayMood = TodayMoodString(m.emoji, m.mood)]

\* emojiMap[emotion.toLowerCase()] || neutral face
EmojiStressed == "U+1F629"
EmojiRelaxed  == "U+1F634"

EmojiMap(emotion) ==
    LET key == toLowerCase(emotion) IN
    CASE key = <<"h","a","p","p","y">>                 -> EmojiHappy
      [] key = <<"c","a","l","m">>                     -> EmojiCalm
      [] key = <<"s","a","d">>                         -> EmojiSad
      [] key = <<"a","n","g","r","y">>                 -> EmojiAngry
      [] key = <<"a","n","x","i","o","u","s">>         -> EmojiAnxious
      [] key = <<"s","t","r","e","s","s","e","d">>     -> EmojiStressed
      [] key = <<"r","e","l","a","x","e","d">>         -> EmojiRelaxed
      [] OTHER                                         -> EmojiNeutral

\* emotion.charAt(0).toUpperCase() + emotion.slice(1)
Capitalize(s) == IF s = <<>> THEN <<>> ELSE <<UpperChar(s[1])>> \o Tail(s)

Min(a, b) == IF a < b THEN a ELSE b
Max(a, b) == IF a > b THEN a ELSE b

\* the score without Math.min and Math.max around it
RemoteScoreUnclamped(intensity) == 100 - intensity * 10

\* Math.min(100, Math.max(0, 100 - intensity * 10))
RemoteScore(intensity) == Min(100, Max(0, 100 - intensity * 10))

\* data.emotionAnalysis.emotions[0] || 'Calm'
FirstEmotion(emotions) ==
    IF emotions = <<>> \/ Head(emotions) = <<>> THEN MoodCalm ELSE Head(emotions)

\* newMood = { ...moodData, moodScore: ..., todayMood: ... } of the remote branch
WithRemoteMood(closure, analysis) ==
    LET emotion == FirstEmotion(analysis.emotions) IN
    [closure EXCEPT !.moodScore = RemoteScore(analysis.intensity),
                    !.todayMood = TodayMoodString(EmojiMap(emotion), Capitalize(emotion))]

\* ---- state updates queued by setMoodData / setIsLoading ----
SetMoodData(value)   == [op |-> "setMoodData",   value |-> value]
PatchMoodData(m)     == [op |-> "patchMoodData", value |-> m]
SetIsLoading(value)  == [op |-> "setIsLoading",  value |-> value]

\* a reducer that applies the values set and drops the updater functions
RECURSIVE ReduceMoodDataValuesOnly(_, _)
ReduceMoodDataValuesOnly(md, updates) ==
    IF updates = <<>> THEN md
    ELSE LET u == Head(updates)
         IN  ReduceMoodDataValuesOnly(IF u.op = "setMoodData" THEN u.value ELSE md,
                                      Tail(updates))

RECURSIVE ReduceMoodData(_, _)
ReduceMoodData(md, updates) ==
    IF updates = <<>> THEN md
    ELSE LET u == Head(updates)
             next == CASE u.op = "setMoodData"   -> u.value
                       [] u.op = "patchMoodData" -> WithLocalMood(md, u.value)
                       [] OTHER                  -> md
         IN  ReduceMoodData(next, Tail(updates))

\* a render that drops the queued setIsLoading
ReduceIsLoadingDropped(loading, updates) == loading

RECURSIVE ReduceIsLoading(_, _)
ReduceIsLoading(loading, updates) ==
    IF updates = <<>> THEN loading
    ELSE LET u == Head(updates)
         IN  ReduceIsLoading(IF u.op = "setIsLoading" THEN u.value ELSE loading,
                             Tail(updates))

\* ---- what the user types and what ai-chat answers ----
TextSad      == <<"s","o"," ","S","a","d">>
TextCalm     == <<"c","a","l","m"," ","n","o","w">>
UserTexts    == {TextSad, TextCalm}

EmotionStressed == <<"s","t","r","e","s","s","e","d">>
ReplyText       == <<"g","o","o","d"," ","t","o"," ","h","e","a","r">>

\* the invoke failed, or the function returned an error
ResponseError   == [ok |-> FALSE, response |-> <<>>, emotionAnalysis |-> None,
                    isCrisis |-> FALSE]
\* a reply with an emotion analysis
ResponseEmotion == [ok |-> TRUE, response |-> ReplyText,
                    emotionAnalysis |-> Some([emotions |-> <<EmotionStressed>>, intensity |-> 7]),
                    isCrisis |-> FALSE]
\* a reply without the emotionAnalysis field
ResponsePlain   == [ok |-> TRUE, response |-> ReplyText, emotionAnalysis |-> None,
                    isCrisis |-> FALSE]

Responses == {ResponseError, ResponseEmotion, ResponsePlain}

\* ---- the toasts of handleSendMessage ----
ToastCrisis == "Crisis Support Available"
ToastError  == "Sorry, I encountered an error. Please try again."

\* a handler that never raises the crisis notice
CrisisNoticeNever(r) == FALSE

\* if (data.isCrisis), reached when the invoke returned no error
CrisisNotice(r) == r.ok /\ r.isCrisis

ToastsOf(r) ==
    IF ~r.ok THEN {ToastError}
    ELSE IF CrisisNotice(r) THEN {ToastCrisis} ELSE {}

\* the reply r with the crisis flag set
Flagged(r) == [r EXCEPT !.isCrisis = TRUE]

\* ---- the chat on its own: more texts, more answers ----
\* "I'm really anxious about tomorrow"
TextAnxious ==
    <<"I","'","m"," ","r","e","a","l","l","y"," ","a","n","x","i","o","u","s"," ",
      "a","b","o","u","t"," ","t","o","m","o","r","r","o","w">>
TextBlank == <<" ", " ">>
ChatTexts == UserTexts \cup {TextAnxious, TextBlank}

\* input.trim() is the empty string
IsBlank(text) == \A i \in DOMAIN text : text[i] = " "

\* a guard that lets every submission through
SubmissionIgnoredNever(text, isLoading) == FALSE

\* if (!input.trim() || isLoading) return;
SubmissionIgnored(text, isLoading) == IsBlank(text) \/ isLoading

EmotionSad == <<"s","a","d">>
EmotionJoy == <<"j","o","y","f","u","l">>

\* the intensities ai-chat reports in the model: below, on and above the
\* ends of the scale
MinIntensity == 0 - 1
MaxIntensity == 12
Intensities  == {MinIntensity, 0, 3, 10, MaxIntensity}

\* a reply whose emotion analysis names these emotions with this intensity
ResponseWith(emotions, intensity) ==
    [ok |-> TRUE, response |-> ReplyText,
     emotionAnalysis |-> Some([emotions |-> emotions, intensity |-> intensity]),
     isCrisis |-> FALSE]

ChatResponses ==
    Responses
    \cup { ResponseWith(<<EmotionSad>>, i) : i \in Intensities }
    \cup { ResponseWith(<<>>, 3), ResponseWith(<<EmotionJoy, EmotionSad>>, 3) }

\* analyzeLocalMood on every text of the model, evaluated once
ClassifiedTexts == ChatTexts \cup { r.response : r \in ChatResponses }
LocalMoodOf     == [t \in ClassifiedTexts |-> analyzeLocalMood(t)]

\* the mood a MoodData carries, and the mood of a signal
MoodOf(md)        == <<md.todayMood, md.moodScore>>
MoodOfSignal(sig) == <<sig.todayMood, sig.moodScore>>

\* a mood signal, as the properties remember it; `persisted` once
\* localStorage["zenora-mood"] has held it
Signal(md, persisted) ==
    [date |-> today, todayMood |-> md.todayMood, moodScore |-> md.moodScore,
     persisted |-> persisted]

\* ------------------------------------------------------------------------
\* Insights.tsx: updateFromStorage and the metric effects
\* ------------------------------------------------------------------------
KeepBeforeToday == 6        \* filtered.slice(-6)
HistoryCap      == KeepBeforeToday + 1      \* "Keep last 7 days"
MoodScale       == 5        \* (parsed.moodScore / 100) * 5

DefaultAverageMood   == 42      \* useState<number>(4.2)
DefaultStreak        == 7
DefaultTimePracticed == 89
DefaultExercises     == 12

\* Math.round((moodScore / 100) * MoodScale), moodScore a whole number >= 0
TodayValue(moodScore) == (2 * moodScore * MoodScale + 100) \div 200

\* the todayMood entry that updateFromStorage builds from the saved text
TodayMoodEntry(saved, date) ==
    LET parsed == ParseMoodData(saved)
    IN  MoodEntry(date, parsed.todayMood, TodayValue(parsed.moodScore))

\* Array.prototype.slice(-n)
SliceLast(s, n) == IF Len(s) <= n THEN s ELSE SubSeq(s, Len(s) - n + 1, Len(s))

\* prev.filter((d) => d.date !== today)
FilterOtherDates(prev, date) ==
    LET keep(d) == d.date # date IN SelectSeq(prev, keep)

\* an updater that appends without removing today's earlier entry
UpdatedMoodDataNoFilter(prev, todayMood) ==
    Append(SliceLast(prev, KeepBeforeToday), todayMood)

\* an updater that keeps one entry too many
UpdatedMoodDataKeepsSeven(prev, todayMood) ==
    Append(SliceLast(FilterOtherDates(prev, todayMood.date), KeepBeforeToday + 1), todayMood)

\* the updater handed to setMoodData: [...filtered.slice(-6), todayMood]
UpdatedMoodData(prev, todayMood) ==
    Append(SliceLast(FilterOtherDates(prev, todayMood.date), KeepBeforeToday), todayMood)

\* the number n and the number NaN as values of the three number fields;
\* in JSON text NaN is written as null, which reads the same
Num(n) == <<n>>
NaN    == <<>>

\* JSON.stringify({ averageMood, streak, timePracticed, exercises })
StringifyInsights(avg, st, tp, ex) ==
    { <<"averageMood", avg>>, <<"streak", st>>,
      <<"timePracticed", tp>>, <<"exercises", ex>> }

\* x || fallback, x a number
OrElse(x, fallback) == IF x = 0 THEN fallback ELSE x

\* data.streak || 7 and the like: 0, NaN and null give the fallback
FieldOrElse(x, fallback) == IF x = NaN \/ x = Num(0) THEN Num(fallback) ELSE x

\* ---- the three number fields ----
Digits == <<"0", "1", "2", "3", "4", "5", "6", "7", "8", "9">>
IsDigit(c) == \E i \in DOMAIN Digits : Digits[i] = c
DigitValue(c) == (CHOOSE i \in DOMAIN Digits : Digits[i] = c) - 1

\* the value of the digits that text starts with, after the digits read so far
RECURSIVE LeadingDigits(_, _)
LeadingDigits(text, sofar) ==
    IF text = <<>> \/ ~IsDigit(Head(text)) THEN sofar
    ELSE LeadingDigits(Tail(text), 10 * sofar + DigitValue(Head(text)))

RECURSIVE TrimStart(_)
TrimStart(text) ==
    IF text # <<>> /\ Head(text) = " " THEN TrimStart(Tail(text)) ELSE text

\* parseInt(text)
ParseInt(text) ==
    LET t      == TrimStart(text)
        signed == t # <<>> /\ Head(t) \in {"-", "+"}
        body   == IF signed THEN Tail(t) ELSE t
    IN  IF body = <<>> \/ ~IsDigit(Head(body)) THEN NaN
        ELSE IF signed /\ Head(t) = "-" THEN Num(0 - LeadingDigits(body, 0))
        ELSE Num(LeadingDigits(body, 0))

\* an onChange that stores what parseInt returned
FieldValueUnguarded(text) == ParseInt(text)

\* parseInt(e.target.value) || 0
FieldValue(text) ==
    IF ParseInt(text) = NaN \/ ParseInt(text) = Num(0) THEN Num(0) ELSE ParseInt(text)

\* clearInterval / removeEventListener of the effect's cleanup
AfterCleanupLeaks(n) == n
AfterCleanup(n) == IF n > 0 THEN n - 1 ELSE 0


\* ------------------------------------------------------------------------
\* MoodContext.tsx: MoodPayload, its JSON text, the [mood] effect
\* ------------------------------------------------------------------------
STORAGE_KEY == "zenora_today_mood"

OptionalFields == {"value", "source", "at"}

\* two payloads a consumer hands to setMood; an absent field is None
PayloadGood == [mood |-> "good", value |-> Some(4), source |-> Some("manual"), at |-> None]
PayloadLow  == [mood |-> "low",  value |-> None,    source |-> None,           at |-> None]
Payloads    == {PayloadGood, PayloadLow}

\* { ...m, at: m.at ?? new Date().toISOString() }
WithAt(m, now) == [m EXCEPT !.at = IF IsSome(m.at) THEN m.at ELSE Some(now)]

\* JSON.stringify(mood): undefined fields are left out of the text
StringifyMood(m) ==
    { <<"mood", m.mood>> } \cup { <<k, Get(m[k])>> : k \in { f \in OptionalFields : IsSome(m[f]) } }

\* the value of key k of a parsed object, None when the text has no such key
OptionalField(text, k) ==
    IF \E kv \in text : kv[1] = k THEN Some(JsonField(text, k)) ELSE None

\* try { raw ? JSON.parse(raw) : null } catch { null }
ParseMood(raw) ==
    IF raw = None \/ ~IsJson(Get(raw)) THEN None
    ELSE Some([ mood   |-> JsonField(Get(raw), "mood"),
                value  |-> OptionalField(Get(raw), "value"),
                source |-> OptionalField(Get(raw), "source"),
                at     |-> OptionalField(Get(raw), "at") ])

EventMoodChange == "zenora:mood-change"
EventMoodClear  == "zenora:mood-clear"

\* the event as a listener gets it: `seen` is what localStorage holds under
\* STORAGE_KEY while the listeners run, `before` what it held when the
\* effect started
MoodEvent(type, detail, seen, before) ==
    [type |-> type, detail |-> detail, seen |-> seen, before |-> before]

\* an effect that notifies first and persists afterwards
MoodEffectDispatchFirst(mood, storage) ==
    IF IsSome(mood)
    THEN [ storage |-> Some(StringifyMood(Get(mood))),
           event   |-> MoodEvent(EventMoodChange, mood, storage, storage) ]
    ELSE [ storage |-> None,
           event   |-> MoodEvent(EventMoodClear, None, storage, storage) ]

\* the body of the [mood] effect: setItem / removeItem, then dispatchEvent,
\* whose listeners run before it returns
MoodEffect(mood, storage) ==
    IF IsSome(mood)
    THEN LET written == Some(StringifyMood(Get(mood)))
         IN  [ storage |-> written,
               event   |-> MoodEvent(EventMoodChange, mood, written, storage) ]
    ELSE [ storage |-> None,
           event   |-> MoodEvent(EventMoodClear, None, None, storage) ]

\* ------------------------------------------------------------------------
\* MoodContext.tsx: Exercises, fetchProgress and handleExerciseComplete
\* ------------------------------------------------------------------------
MaxCalls == 3       \* the exercises completed in one run
MaxExDay == 3       \* the calendar of the Exercises page runs over 1 .. MaxExDay

Calls == 1 .. MaxCalls

\* durations of the catalogue: Gratitude Journal, Loving Kindness Meditation
JournalMinutes == 5
KindnessMinutes == 12
Durations == {JournalMinutes, KindnessMinutes}

\* a row of user_progress; last_exercise_at as the day it falls on
ProgressRow(done, minutes, dayStreak, at) ==
    [exercises_done |-> done, minutes_practiced |-> minutes,
     day_streak |-> dayStreak, last_exercise_at |-> at]

\* what .select('exercises_done, minutes_practiced, day_streak') returns of it
Counters(row) ==
    [exercises_done |-> row.exercises_done, minutes_practiced |-> row.minutes_practiced,
     day_streak |-> row.day_streak]

\* the row that fetchProgress writes when its select returned none
InitialRow(day) == ProgressRow(0, 0, 0, day)

\* progressData?.day_streak || 1
StreakRead(progressData) ==
    IF progressData = None \/ Get(progressData).day_streak = 0
    THEN 1 ELSE Get(progressData).day_streak

\* the row that handleExerciseComplete upserts, from the row it read (None
\* when there was none) on day `day`; every row holds last_exercise_at
CompletedRow(progressData, duration, day) ==
    LET newExercises == (IF progressData = None THEN 0 ELSE Get(progressData).exercises_done) + 1
        newMinutes   == (IF progressData = None THEN 0 ELSE Get(progressData).minutes_practiced)
                        + duration
        newStreak    == StreakRead(progressData)
                        + (IF progressData # None /\ Get(progressData).last_exercise_at # day
                           THEN 1 ELSE 0)
    IN  ProgressRow(newExercises, newMinutes, newStreak, day)

\* ---- where a call of handleExerciseComplete stands ----
IdleCall == [pc |-> "idle", duration |-> 0, row |-> None]
\* awaiting start-exercise and the select
StartedCall(duration) == [pc |-> "started", duration |-> duration, row |-> None]
\* the upsert of `row` is on its way
WritingCall(duration, row) == [pc |-> "upsert", duration |-> duration, row |-> Some(row)]
\* the upsert was applied and the handler has finished
DoneCall(duration) == [pc |-> "done", duration |-> duration, row |-> None]
\* ------------------------------------------------------------------------
\* The state of each part before anything has happened
\* ------------------------------------------------------------------------
InitIdleClassify == message = <<>> /\ localMood = None
InitIdleDash     == moodEntries = {} /\ clock = 0 /\ streak = 0 /\ streakFresh = FALSE
InitIdleAverage  == data = <<>> /\ average = None

InitIdleEngine ==
    /\ lsZenoraMood = None
    /\ lsInsightsData = None
    /\ today = 1
    /\ zMounted  = [z \in Tabs |-> FALSE]
    /\ zMoodData = [z \in Tabs |-> DefaultMoodData]
    /\ zPending  = [z \in Tabs |-> <<>>]
    /\ zLoading  = [z \in Tabs |-> FALSE]
    /\ zRequest  = [z \in Tabs |-> None]
    /\ zOrphan   = [z \in Tabs |-> None]
    /\ zReplies  = [z \in Tabs |-> 0]
    /\ zToasts   = [z \in Tabs |-> {}]
    /\ insMounted = FALSE
    /\ insMoodData = <<>>
    /\ insAverageMood = DefaultAverageMood
    /\ insStreak = Num(DefaultStreak)
    /\ insTimePracticed = Num(DefaultTimePracticed)
    /\ insExercises = Num(DefaultExercises)
    /\ insIntervals = 0
    /\ insListeners = 0
    /\ lastSignal = None
    /\ insLast = "stale"
    /\ insRecorded = {}
    /\ thrown = {}

InitIdleProvider ==
    /\ lsTodayMood = None
    /\ pMounted = [p \in Tabs |-> FALSE]
    /\ pMood    = [p \in Tabs |-> None]
    /\ pEffect  = [p \in Tabs |-> FALSE]
    /\ pEvent   = [p \in Tabs |-> None]


InitIdleExercise ==
    /\ userProgress = None
    /\ exDay = 1
    /\ exMounted = FALSE
    /\ progress = None
    /\ exCalls = [c \in Calls |-> IdleCall]
    /\ exFetching = 0
    /\ exInits = {}
\* ------------------------------------------------------------------------
\* Classifier inputs: every concatenation of at most MaxFragments fragments.
\* The fragments are the twelve keywords, mixed-case spellings, pieces that
\* form a keyword only across a fragment boundary, and filler.
\* ------------------------------------------------------------------------
MaxFragments == 2

Fragments ==
    { kwSad, kwTired, kwUpset, kwAngry, kwMad, kwHappy, kwGreat, kwGood,
      kwAnxious, kwWorried, kwRelax, kwCalm,
      <<"S","A","D">>, <<"H","a","p","p","y">>, <<"c","A","L","M">>,
      <<"m","a">>, <<"d">>, <<" ">>, <<"o","k">> }

RECURSIVE Concat(_)
Concat(ss) == IF ss = <<>> THEN <<>> ELSE Head(ss) \o Concat(Tail(ss))

Texts ==
    { Concat(fs) : fs \in UNION { [1..n -> Fragments] : n \in 0..MaxFragments } }

InitClassify ==
    /\ message \in Texts
    /\ localMood = None
    /\ InitIdleDash
    /\ InitIdleAverage
    /\ InitIdleEngine
    /\ InitIdleProvider
    /\ InitIdleExercise

Classify ==
    /\ localMood = None
    /\ localMood' = Some(analyzeLocalMood(message))
    /\ UNCHANGED <<message, dashVars, averageVars, engineVars, providerVars, exerciseVars>>

NextClassify == Classify

SpecClassify == InitClassify /\ [][NextClassify]_vars

InitDash ==
    /\ moodEntries = {}
    /\ clock = 0
    /\ streak = 0
    /\ streakFresh = FALSE
    /\ InitIdleClassify
    /\ InitIdleAverage
    /\ InitIdleEngine
    /\ InitIdleProvider
    /\ InitIdleExercise

\* a row is inserted into mood_entries, created_at = now
InsertMoodEntry ==
    /\ Cardinality(moodEntries) < MaxRows
    /\ clock \notin moodEntries
    /\ moodEntries' = moodEntries \cup {clock}
    /\ streakFresh' = FALSE
    /\ UNCHANGED <<clock, streak, classifyVars, averageVars, engineVars, providerVars, exerciseVars>>

\* time passes
Tick ==
    /\ clock + 1 < MaxDays * SlotsPerDay
    /\ clock' = clock + 1
    /\ streakFresh' = FALSE
    /\ UNCHANGED <<moodEntries, streak, classifyVars, averageVars, engineVars, providerVars, exerciseVars>>

\* the streak effect of Dashboard: fetchStreak, then setStreak
FetchStreak ==
    /\ streak' = calculateStreak(uniqueDates(moodEntries), clock)
    /\ streakFresh' = TRUE
    /\ UNCHANGED <<moodEntries, clock, classifyVars, averageVars, engineVars, providerVars, exerciseVars>>

NextDash == InsertMoodEntry \/ Tick \/ FetchStreak

SpecDash == InitDash /\ [][NextDash]_vars

InitAverage ==
    /\ data = <<>>
    /\ average = None
    /\ InitIdleClassify
    /\ InitIdleDash
    /\ InitIdleEngine
    /\ InitIdleProvider
    /\ InitIdleExercise

\* one more entry in the history handed to the function
ExtendData ==
    /\ Len(data) < HistoryCap
    /\ \E v \in 0..MoodScale :
           data' = Append(data, MoodEntry(Len(data) + 1, MoodNeutral, v))
    /\ average' = None
    /\ UNCHANGED <<classifyVars, dashVars, engineVars, providerVars, exerciseVars>>

Average ==
    /\ average = None
    /\ average' = Some(calculateAverageMood(data))
    /\ UNCHANGED <<data, classifyVars, dashVars, engineVars, providerVars, exerciseVars>>

NextAverage == ExtendData \/ Average

SpecAverage == InitAverage /\ [][NextAverage]_vars

\* ------------------------------------------------------------------------
\* The engine: Zenora screens, the Insights screen, localStorage, the calendar
\*
\* React runs a click handler, the render it causes and that render's effects
\* in one task.  State set from an effect or after an await is rendered in a
\* later task: those updates wait in zPending until ZCommit, and an unmount
\* in between drops them.  A screen that unmounts while handleSendMessage
\* awaits ai-chat leaves the call running; its setState calls then do nothing.
\* ------------------------------------------------------------------------
MaxNotes       == 1     \* motivational notes added to the three initial ones
MaxDate        == 2     \* the calendar runs over the dates 1 .. MaxDate
MaxHistoryDate == 9     \* the same, in the single-tab specification

NoteText == "One day at a time."

NotEngine == <<classifyVars, dashVars, averageVars, providerVars, exerciseVars>>

\* a write of localStorage["zenora-mood"], as the properties see it
MoodWritten == insLast' = "stale"

\* readers of localStorage whose JSON.parse no try/catch surrounds
ZenoraLoadEffect       == "Zenora load effect"
InsightsUpdate         == "Insights updateFromStorage"
InsightsMetricsLoader  == "Insights metrics loader"

\* the Zenora screen of tab z mounts: state is initialised, then the load
\* effect reads the saved mood and the save effect writes the initial one.
\* On a saved text that is no JSON the load effect throws and React removes
\* the screen; whether the effects after the throwing one still run depends
\* on the React version
ZMount(z) ==
    /\ ~zMounted[z]
    /\ IF IsSome(lsZenoraMood) /\ ~IsJson(Get(lsZenoraMood))
       THEN /\ thrown' = thrown \cup {ZenoraLoadEffect}
            /\ lsZenoraMood' \in {lsZenoraMood, Some(StringifyMoodData(DefaultMoodData))}
            /\ UNCHANGED <<zMounted, zMoodData, zLoading, zPending, talkVars>>
       ELSE /\ zMounted'  = [zMounted  EXCEPT ![z] = TRUE]
            /\ zMoodData' = [zMoodData EXCEPT ![z] = DefaultMoodData]
            /\ zLoading'  = [zLoading  EXCEPT ![z] = FALSE]
            /\ zReplies'  = [zReplies  EXCEPT ![z] = 0]
            /\ zToasts'   = [zToasts   EXCEPT ![z] = {}]
            /\ zPending'  = [zPending  EXCEPT ![z] =
                                IF IsSome(lsZenoraMood)
                                THEN <<SetMoodData(ParseMoodData(Get(lsZenoraMood)))>>
                                ELSE <<>>]
            /\ lsZenoraMood' = Some(StringifyMoodData(DefaultMoodData))
            /\ thrown' = thrown
    /\ MoodWritten
    /\ UNCHANGED <<lsInsightsData, today, zRequest, zOrphan, insightsVars,
                   lastSignal, insRecorded, NotEngine>>

\* the queued state updates of tab z are rendered; the save effect runs when
\* moodData is a new object
ZCommit(z) ==
    /\ zMounted[z]
    /\ zPending[z] # <<>>
    /\ LET md      == ReduceMoodData(zMoodData[z], zPending[z])
           changed == \E i \in DOMAIN zPending[z] : zPending[z][i].op # "setIsLoading"
           \* the fallback mood of the reply is among the updates rendered
           patched == \E i \in DOMAIN zPending[z] : zPending[z][i].op = "patchMoodData"
       IN  /\ zMoodData' = [zMoodData EXCEPT ![z] = md]
           /\ zLoading'  = [zLoading EXCEPT ![z] = ReduceIsLoading(zLoading[z], zPending[z])]
           /\ IF changed
              THEN lsZenoraMood' = Some(StringifyMoodData(md)) /\ MoodWritten
              ELSE UNCHANGED <<lsZenoraMood, insLast>>
           /\ lastSignal' =
                 IF patched /\ IsSome(lastSignal)
                            /\ MoodOf(md) = MoodOfSignal(Get(lastSignal))
                 THEN Some([Get(lastSignal) EXCEPT !.persisted = TRUE])
                 ELSE lastSignal
    /\ zPending' = [zPending EXCEPT ![z] = <<>>]
    /\ UNCHANGED <<lsInsightsData, today, zMounted, zRequest, zOrphan, talkVars,
                   insightsVars, insRecorded, thrown, NotEngine>>

\* handleSendMessage up to its await: the mood of the user's text is set and
\* saved at once, and ai-chat is invoked
ZSend(z, text) ==
    /\ zMounted[z]
    /\ zPending[z] = <<>>
    /\ ~SubmissionIgnored(text, zLoading[z])
    /\ LET md == WithLocalMood(zMoodData[z], LocalMoodOf[text])
       IN  /\ zMoodData' = [zMoodData EXCEPT ![z] = md]
           /\ lsZenoraMood' = Some(StringifyMoodData(md))
           /\ lastSignal' = Some(Signal(md, TRUE))
    /\ zLoading' = [zLoading EXCEPT ![z] = TRUE]
    /\ zRequest' = [zRequest EXCEPT ![z] =
                        Some([text |-> text, moodData |-> zMoodData[z]])]
    /\ zReplies' = [zReplies EXCEPT ![z] = 0]
    /\ zToasts'  = [zToasts  EXCEPT ![z] = {}]
    /\ MoodWritten
    /\ UNCHANGED <<lsInsightsData, today, zMounted, zPending, zOrphan, insightsVars,
                   insRecorded, thrown, NotEngine>>

\* a handler that classifies the reply text whether or not an analysis came
ResponseMoodIgnoresAnalysis(closure, r) ==
    IF ~r.ok THEN None
    ELSE Some(WithLocalMood(closure, LocalMoodOf[r.response]))

\* the mood that the rest of handleSendMessage derives from response r, for
\* the call whose closure holds `closure`; None when the invoke failed
ResponseMood(closure, r) ==
    IF ~r.ok THEN None
    ELSE IF IsSome(r.emotionAnalysis)
         THEN Some(WithRemoteMood(closure, Get(r.emotionAnalysis)))
         ELSE Some(WithLocalMood(closure, LocalMoodOf[r.response]))

\* handleSendMessage after its await, the screen still mounted
ZRespond(z, r) ==
    /\ zMounted[z]
    /\ IsSome(zRequest[z])
    /\ LET call == Get(zRequest[z])
           mood == ResponseMood(call.moodData, r)
       IN  IF ~r.ok
           THEN /\ zPending' = [zPending EXCEPT ![z] = Append(@, SetIsLoading(FALSE))]
                /\ UNCHANGED <<lsZenoraMood, lastSignal, insLast>>
           ELSE IF IsSome(r.emotionAnalysis)
           THEN /\ zPending' = [zPending EXCEPT ![z] =
                        @ \o <<SetMoodData(Get(mood)), SetIsLoading(FALSE)>>]
                /\ lsZenoraMood' = Some(StringifyMoodData(Get(mood)))
                /\ lastSignal' = Some(Signal(Get(mood), TRUE))
                /\ MoodWritten
           ELSE /\ zPending' = [zPending EXCEPT ![z] =
                        @ \o <<PatchMoodData(LocalMoodOf[r.response]),
                               SetIsLoading(FALSE)>>]
                /\ lastSignal' = Some(Signal(Get(mood), FALSE))
                /\ insLast' = "stale"
                /\ UNCHANGED lsZenoraMood
    /\ zReplies' = [zReplies EXCEPT ![z] = @ + 1]
    /\ zToasts'  = [zToasts  EXCEPT ![z] = ToastsOf(r)]
    /\ zRequest' = [zRequest EXCEPT ![z] = None]
    /\ UNCHANGED <<lsInsightsData, today, zMounted, zMoodData, zLoading, zOrphan,
                   insightsVars, insRecorded, thrown, NotEngine>>

\* handleSendMessage after its await, its screen unmounted meanwhile: the
\* setState calls do nothing, the setItem of the remote branch still runs and
\* so do the toasts, which the application shell shows
ZOrphanRespond(z, r) ==
    /\ IsSome(zOrphan[z])
    /\ LET call == Get(zOrphan[z])
           mood == ResponseMood(call.moodData, r)
       IN  IF ~r.ok
           THEN UNCHANGED <<lsZenoraMood, lastSignal, insLast>>
           ELSE IF IsSome(r.emotionAnalysis)
           THEN /\ lsZenoraMood' = Some(StringifyMoodData(Get(mood)))
                /\ lastSignal' = Some(Signal(Get(mood), TRUE))
                /\ MoodWritten
           ELSE /\ lastSignal' = Some(Signal(Get(mood), FALSE))
                /\ insLast' = "stale"
                /\ UNCHANGED lsZenoraMood
    /\ zToasts' = [zToasts EXCEPT ![z] = ToastsOf(r)]
    /\ zOrphan' = [zOrphan EXCEPT ![z] = None]
    /\ UNCHANGED <<lsInsightsData, today, zMounted, zMoodData, zPending, zLoading,
                   zRequest, zReplies, insightsVars, insRecorded, thrown, NotEngine>>

\* the Zenora screen of tab z unmounts (navigation, reload, tab closed)
ZUnmount(z) ==
    /\ zMounted[z]
    /\ IsSome(zRequest[z]) => zOrphan[z] = None
    /\ zMounted'  = [zMounted  EXCEPT ![z] = FALSE]
    /\ zMoodData' = [zMoodData EXCEPT ![z] = DefaultMoodData]
    /\ zPending'  = [zPending  EXCEPT ![z] = <<>>]
    /\ zLoading'  = [zLoading  EXCEPT ![z] = FALSE]
    /\ zOrphan'   = [zOrphan   EXCEPT ![z] = IF IsSome(zRequest[z]) THEN zRequest[z] ELSE @]
    /\ zRequest'  = [zRequest  EXCEPT ![z] = None]
    /\ zReplies'  = [zReplies  EXCEPT ![z] = 0]
    /\ zToasts'   = [zToasts   EXCEPT ![z] = {}]
    /\ UNCHANGED <<storageVars, insightsVars, historyVars, NotEngine>>

\* addMotivation: a click, so state, render and save effect in one task
ZAddMotivation(z) ==
    /\ zMounted[z]
    /\ zPending[z] = <<>>
    /\ Len(zMoodData[z].motivation) < Len(DefaultMoodData.motivation) + MaxNotes
    /\ LET updated == [zMoodData[z] EXCEPT !.motivation = Append(@, NoteText)]
       IN  /\ zMoodData' = [zMoodData EXCEPT ![z] = updated]
           /\ lsZenoraMood' = Some(StringifyMoodData(updated))
    /\ MoodWritten
    /\ UNCHANGED <<lsInsightsData, today, zMounted, zPending, zLoading, zRequest,
                   zOrphan, talkVars, insightsVars, lastSignal, insRecorded,
                   thrown, NotEngine>>

\* midnight passes; the 2 s interval of a mounted Insights screen has fired
\* since the last change
NextDay(maxDate) ==
    /\ today < maxDate
    /\ insMounted => insLast # "stale"
    /\ today' = today + 1
    /\ insLast' = "stale"
    /\ UNCHANGED <<lsZenoraMood, lsInsightsData, zenoraVars, insightsVars,
                   lastSignal, insRecorded, thrown, NotEngine>>

\* the Insights screen mounts and its three effects run: updateFromStorage
\* (its updater is evaluated at once, the fibre having no update queued),
\* the load of insightsData, the save of insightsData; then the queued state
\* is rendered and the save effect runs again if a metric changed.
\* JSON.parse throwing in the first or the second effect removes the screen,
\* cleanups included; whether the effects after the throwing one still run
\* depends on the React version
InsMount ==
    /\ ~insMounted
    /\ LET saved    == lsZenoraMood
           defaults == Some(StringifyInsights(DefaultAverageMood, Num(DefaultStreak),
                                Num(DefaultTimePracticed), Num(DefaultExercises)))
           badMood  == IsSome(saved) /\ ~IsJson(Get(saved))
           badData  == IsSome(lsInsightsData) /\ ~IsJson(Get(lsInsightsData))
       IN  IF badMood
           THEN /\ \/ /\ thrown' = thrown \cup {InsightsUpdate}
                      /\ UNCHANGED lsInsightsData
                   \/ /\ thrown' = thrown \cup {InsightsUpdate} \cup
                                    (IF badData THEN {InsightsMetricsLoader} ELSE {})
                      /\ lsInsightsData' = defaults
                /\ UNCHANGED <<insMounted, insMoodData, insAverageMood, insRecorded,
                               metricVars, timerVars>>
           ELSE IF ~IsSome(saved) /\ badData
           THEN /\ thrown' = thrown \cup {InsightsMetricsLoader}
                /\ lsInsightsData' \in {lsInsightsData, defaults}
                /\ UNCHANGED <<insMounted, insMoodData, insAverageMood, insRecorded,
                               metricVars, timerVars>>
           ELSE LET updated  == IF IsSome(saved)
                                THEN UpdatedMoodData(<<>>, TodayMoodEntry(Get(saved), today))
                                ELSE <<>>
                    \* insightsData as effect 2 finds it: effect 1 has written the
                    \* average next to the initial values of the three fields
                    stored   == IF IsSome(saved)
                                THEN Some(StringifyInsights(calculateAverageMood(updated),
                                         Num(DefaultStreak), Num(DefaultTimePracticed),
                                         Num(DefaultExercises)))
                                ELSE lsInsightsData
                    \* setAverageMood(data.averageMood || 4.2) is queued last and wins
                    avg      == IF IsSome(stored)
                                THEN OrElse(JsonField(Get(stored), "averageMood"), DefaultAverageMood)
                                ELSE DefaultAverageMood
                    st       == IF IsSome(stored)
                                THEN FieldOrElse(JsonField(Get(stored), "streak"), DefaultStreak)
                                ELSE Num(DefaultStreak)
                    tp       == IF IsSome(stored)
                                THEN FieldOrElse(JsonField(Get(stored), "timePracticed"),
                                                 DefaultTimePracticed)
                                ELSE Num(DefaultTimePracticed)
                    ex       == IF IsSome(stored)
                                THEN FieldOrElse(JsonField(Get(stored), "exercises"), DefaultExercises)
                                ELSE Num(DefaultExercises)
                IN  /\ insMounted' = TRUE
                    /\ insMoodData' = updated
                    /\ insAverageMood' = avg
                    /\ insStreak' = st
                    /\ insTimePracticed' = tp
                    /\ insExercises' = ex
                    /\ lsInsightsData' = Some(StringifyInsights(avg, st, tp, ex))
                    /\ insRecorded' = IF IsSome(saved) THEN {today} ELSE {}
                    /\ insIntervals' = insIntervals + 1
                    /\ insListeners' = insListeners + 1
                    /\ thrown' = thrown
    /\ insLast' = IF insMounted' THEN "none" ELSE "stale"
    /\ UNCHANGED <<lsZenoraMood, today, zenoraVars, lastSignal, NotEngine>>

\* updateFromStorage, run by the 2 s interval or by a storage event; on a
\* saved text that is no JSON it throws out of the timer callback.  Were it
\* to run for a screen that is gone, setMoodData would do nothing
InsUpdate ==
    /\ insIntervals > 0 \/ insListeners > 0
    /\ IF IsSome(lsZenoraMood) /\ ~IsJson(Get(lsZenoraMood))
       THEN /\ thrown' = thrown \cup {InsightsUpdate}
            /\ insLast' = "none"
            /\ UNCHANGED <<insMoodData, insAverageMood, lsInsightsData, insRecorded>>
       ELSE IF IsSome(lsZenoraMood) /\ insMounted
       THEN LET todayMood == TodayMoodEntry(Get(lsZenoraMood), today)
                updated   == UpdatedMoodData(insMoodData, todayMood)
                avg       == calculateAverageMood(updated)
                replaced  == { i \in DOMAIN insMoodData : insMoodData[i].date = today }
            IN  /\ insMoodData' = updated
                /\ insAverageMood' = avg
                /\ lsInsightsData' = Some(StringifyInsights(avg,
                                          insStreak, insTimePracticed, insExercises))
                /\ insRecorded' = insRecorded \cup {today}
                /\ insLast' = IF replaced = {} THEN "none"
                              ELSE IF \A i \in replaced : insMoodData[i] = todayMood
                                   THEN "same" ELSE "different"
                /\ thrown' = thrown
       ELSE /\ insLast' = "none"
            /\ UNCHANGED <<insMoodData, insAverageMood, lsInsightsData, insRecorded, thrown>>
    /\ UNCHANGED <<lsZenoraMood, today, zenoraVars, insMounted, metricVars, timerVars,
                   lastSignal, NotEngine>>

\* the three number fields of the page
MetricFields == {"streak", "timePracticed", "exercises"}

\* onChange of one of the number fields: the state is set, the render
\* re-runs the first effect (cleanup, updateFromStorage with the new values,
\* a new listener and interval) and the save effect.  A saved mood that is
\* no JSON makes the re-run throw, which removes the screen; whether the
\* save effect still runs then depends on the React version
InsEdit(field, text) ==
    /\ insMounted
    /\ LET v   == FieldValue(text)
           st  == IF field = "streak" THEN v ELSE insStreak
           tp  == IF field = "timePracticed" THEN v ELSE insTimePracticed
           ex  == IF field = "exercises" THEN v ELSE insExercises
           bad == IsSome(lsZenoraMood) /\ ~IsJson(Get(lsZenoraMood))
       IN  /\ <<st, tp, ex>> # <<insStreak, insTimePracticed, insExercises>>
           /\ IF bad
              THEN /\ thrown' = thrown \cup {InsightsUpdate}
                   /\ insMounted' = FALSE
                   /\ insStreak' = Num(DefaultStreak)
                   /\ insTimePracticed' = Num(DefaultTimePracticed)
                   /\ insExercises' = Num(DefaultExercises)
                   /\ insIntervals' = AfterCleanup(insIntervals)
                   /\ insListeners' = AfterCleanup(insListeners)
                   /\ lsInsightsData' \in {lsInsightsData,
                          Some(StringifyInsights(insAverageMood, st, tp, ex))}
                   /\ insLast' = "stale"
                   /\ insRecorded' = {}
                   /\ UNCHANGED <<insMoodData, insAverageMood>>
              ELSE /\ insStreak' = st
                   /\ insTimePracticed' = tp
                   /\ insExercises' = ex
                   /\ insIntervals' = AfterCleanup(insIntervals) + 1
                   /\ insListeners' = AfterCleanup(insListeners) + 1
                   /\ IF IsSome(lsZenoraMood)
                      THEN LET todayMood == TodayMoodEntry(Get(lsZenoraMood), today)
                               updated   == UpdatedMoodData(insMoodData, todayMood)
                               avg       == calculateAverageMood(updated)
                               replaced  == { i \in DOMAIN insMoodData :
                                                insMoodData[i].date = today }
                           IN  /\ insMoodData' = updated
                               /\ insAverageMood' = avg
                               /\ lsInsightsData' = Some(StringifyInsights(avg, st, tp, ex))
                               /\ insRecorded' = insRecorded \cup {today}
                               /\ insLast' = IF replaced = {} THEN "none"
                                             ELSE IF \A i \in replaced : insMoodData[i] = todayMood
                                                  THEN "same" ELSE "different"
                      ELSE /\ lsInsightsData' = Some(StringifyInsights(insAverageMood, st, tp, ex))
                           /\ insLast' = "none"
                           /\ UNCHANGED <<insMoodData, insAverageMood, insRecorded>>
                   /\ UNCHANGED <<insMounted, thrown>>
    /\ UNCHANGED <<lsZenoraMood, today, zenoraVars, lastSignal, NotEngine>>

\* the Insights screen unmounts: the cleanup of the first effect runs and
\* the state is gone
InsUnmount ==
    /\ insMounted
    /\ insMounted' = FALSE
    /\ insStreak' = Num(DefaultStreak)
    /\ insTimePracticed' = Num(DefaultTimePracticed)
    /\ insExercises' = Num(DefaultExercises)
    /\ insIntervals' = AfterCleanup(insIntervals)
    /\ insListeners' = AfterCleanup(insListeners)
    /\ insLast' = "stale"
    /\ insRecorded' = {}
    /\ UNCHANGED <<storageVars, zenoraVars, insMoodData, insAverageMood, lastSignal,
                   thrown, NotEngine>>

InitEngine ==
    /\ InitIdleEngine
    /\ InitIdleClassify
    /\ InitIdleDash
    /\ InitIdleAverage
    /\ InitIdleProvider
    /\ InitIdleExercise

\* ---- one browser tab with the Zenora screen, one Insights screen ----
MainTab == "tab1"

Next ==
    \/ ZMount(MainTab)
    \/ ZCommit(MainTab)
    \/ \E text \in UserTexts : ZSend(MainTab, text)
    \/ \E r \in Responses : ZRespond(MainTab, r)
    \/ \E r \in Responses : ZOrphanRespond(MainTab, r)
    \/ ZUnmount(MainTab)
    \/ ZAddMotivation(MainTab)
    \/ NextDay(MaxDate)
    \/ InsMount
    \/ InsUpdate
    \/ InsUnmount

Spec == InitEngine /\ [][Next]_vars

\* ---- the same tab over a longer calendar, fewer texts and answers ----
HistoryTexts     == {TextSad}
HistoryResponses == {ResponseError}

NextHistory ==
    \/ ZMount(MainTab)
    \/ ZCommit(MainTab)
    \/ \E text \in HistoryTexts : ZSend(MainTab, text)
    \/ \E r \in HistoryResponses : ZRespond(MainTab, r)
    \/ NextDay(MaxHistoryDate)
    \/ InsMount
    \/ InsUpdate
    \/ InsUnmount

SpecHistory == InitEngine /\ [][NextHistory]_vars


\* ------------------------------------------------------------------------
\* MoodContext.tsx: one MoodProvider per browser tab, one localStorage
\* ------------------------------------------------------------------------
NotProvider == <<classifyVars, dashVars, averageVars, engineVars, exerciseVars>>

\* the provider of tab p mounts: the lazy initialiser reads the saved mood;
\* the [mood] effect is due after the first render
PMount(p) ==
    /\ ~pMounted[p]
    /\ pMounted' = [pMounted EXCEPT ![p] = TRUE]
    /\ pMood'    = [pMood    EXCEPT ![p] = ParseMood(lsTodayMood)]
    /\ pEffect'  = [pEffect  EXCEPT ![p] = TRUE]
    /\ UNCHANGED <<lsTodayMood, pEvent, NotProvider>>

\* setMood(m): a new object, so the [mood] effect is due
PSetMood(p, m) ==
    /\ pMounted[p]
    /\ pMood'   = [pMood   EXCEPT ![p] = Some(WithAt(m, today))]
    /\ pEffect' = [pEffect EXCEPT ![p] = TRUE]
    /\ UNCHANGED <<lsTodayMood, pMounted, pEvent, NotProvider>>

\* clearMood(): setMoodState(null); no render when the state is null already
PClearMood(p) ==
    /\ pMounted[p]
    /\ pMood'   = [pMood   EXCEPT ![p] = None]
    /\ pEffect' = [pEffect EXCEPT ![p] = @ \/ IsSome(pMood[p])]
    /\ UNCHANGED <<lsTodayMood, pMounted, pEvent, NotProvider>>

\* the [mood] effect of tab p runs
PEffect(p) ==
    /\ pMounted[p]
    /\ pEffect[p]
    /\ LET done == MoodEffect(pMood[p], lsTodayMood)
       IN  /\ lsTodayMood' = done.storage
           /\ pEvent' = [pEvent EXCEPT ![p] = Some(done.event)]
    /\ pEffect' = [pEffect EXCEPT ![p] = FALSE]
    /\ UNCHANGED <<pMounted, pMood, NotProvider>>

\* the tab is closed or reloaded, its effects having run
PUnmount(p) ==
    /\ pMounted[p]
    /\ ~pEffect[p]
    /\ pMounted' = [pMounted EXCEPT ![p] = FALSE]
    /\ pMood'    = [pMood    EXCEPT ![p] = None]
    /\ pEvent'   = [pEvent   EXCEPT ![p] = None]
    /\ UNCHANGED <<lsTodayMood, pEffect, NotProvider>>

InitProvider ==
    /\ InitIdleProvider
    /\ InitIdleExercise
    /\ InitIdleEngine
    /\ InitIdleClassify
    /\ InitIdleDash
    /\ InitIdleAverage

NextProvider ==
    \/ \E p \in Tabs : PMount(p)
    \/ \E p \in Tabs : \E m \in Payloads : PSetMood(p, m)
    \/ \E p \in Tabs : PClearMood(p)
    \/ \E p \in Tabs : PEffect(p)
    \/ \E p \in Tabs : PUnmount(p)

SpecProvider == InitProvider /\ [][NextProvider]_vars

\* ------------------------------------------------------------------------
\* Two browser tabs on one localStorage: the Zenora screen open in both, the
\* user chatting in the second; the Insights screen polling.  React renders
\* queued state, ai-chat answers, and the interval keeps firing.
\* ------------------------------------------------------------------------
OtherTab == "tab2"

NextTabs ==
    \/ \E z \in Tabs : ZMount(z)
    \/ \E z \in Tabs : ZCommit(z)
    \/ \E text \in HistoryTexts : ZSend(OtherTab, text)
    \/ \E r \in HistoryResponses : ZRespond(OtherTab, r)
    \/ InsMount
    \/ InsUpdate

FairTabs ==
    /\ \A z \in Tabs : WF_vars(ZCommit(z))
    /\ \A r \in HistoryResponses : WF_vars(ZRespond(OtherTab, r))
    /\ WF_vars(InsUpdate)

SpecTabs == InitEngine /\ [][NextTabs]_vars /\ FairTabs

\* ------------------------------------------------------------------------
\* Cold starts and polls on a localStorage in which something other than
\* these pages has left a text that is no JSON
\* ------------------------------------------------------------------------
StorageKeys == {"zenora-mood", "insightsData", STORAGE_KEY}

\* localStorage.setItem(key, <not JSON>) by another script, an extension, the user
SeedCorrupt(key) ==
    /\ key \in StorageKeys
    /\ lsZenoraMood'   = IF key = "zenora-mood"  THEN Some(NotJson) ELSE lsZenoraMood
    /\ lsInsightsData' = IF key = "insightsData" THEN Some(NotJson) ELSE lsInsightsData
    /\ lsTodayMood'    = IF key = STORAGE_KEY    THEN Some(NotJson) ELSE lsTodayMood
    /\ <<lsZenoraMood', lsInsightsData', lsTodayMood'>> # <<lsZenoraMood, lsInsightsData, lsTodayMood>>
    /\ insLast' = "stale"
    /\ UNCHANGED <<today, zenoraVars, insightsVars, lastSignal, insRecorded, thrown,
                   classifyVars, dashVars, averageVars, pMounted, pMood, pEffect, pEvent,
                   exerciseVars>>

NextCorrupt ==
    \/ \E key \in StorageKeys : SeedCorrupt(key)
    \/ ZMount(MainTab)
    \/ ZCommit(MainTab)
    \/ ZUnmount(MainTab)
    \/ InsMount
    \/ InsUpdate
    \/ InsUnmount
    \/ PMount(MainTab)
    \/ PEffect(MainTab)
    \/ PUnmount(MainTab)

SpecCorrupt == InitEngine /\ [][NextCorrupt]_vars

\* ------------------------------------------------------------------------
\* Clearing: MoodProvider.clearMood, and the account deletion of the
\* Settings page, in a browser with two tabs
\* ------------------------------------------------------------------------
\* handleDeleteAccount in tab p (its Settings page is open, so its Zenora
\* screen is not): localStorage.clear(), a toast, navigate('/').  No state
\* of any provider or screen is set and no event is dispatched
DeleteAccount(p) ==
    /\ ~zMounted[p]
    /\ lsZenoraMood' = None
    /\ lsInsightsData' = None
    /\ lsTodayMood' = None
    /\ lastSignal' = None
    /\ insLast' = "stale"
    /\ UNCHANGED <<today, zenoraVars, insightsVars, insRecorded, thrown,
                   classifyVars, dashVars, averageVars, pMounted, pMood, pEffect, pEvent,
                   exerciseVars>>

ClearPayloads == {PayloadLow}

NextClear ==
    \/ ZMount(MainTab)
    \/ ZCommit(MainTab)
    \/ \E text \in HistoryTexts : ZSend(MainTab, text)
    \/ \E r \in HistoryResponses : ZRespond(MainTab, r)
    \/ ZUnmount(MainTab)
    \/ InsMount
    \/ InsUpdate
    \/ InsUnmount
    \/ \E p \in Tabs : DeleteAccount(p)
    \/ \E p \in Tabs : PMount(p)
    \/ \E p \in Tabs : \E m \in ClearPayloads : PSetMood(p, m)
    \/ \E p \in Tabs : PClearMood(p)
    \/ \E p \in Tabs : PEffect(p)

SpecClear == InitEngine /\ [][NextClear]_vars

\* ------------------------------------------------------------------------
\* The Zenora screen of one tab on one date, chatting
\* ------------------------------------------------------------------------
NextChat ==
    \/ ZMount(MainTab)
    \/ ZCommit(MainTab)
    \/ \E text \in ChatTexts : ZSend(MainTab, text)
    \/ \E r \in ChatResponses : ZRespond(MainTab, r)
    \/ \E r \in ChatResponses : ZOrphanRespond(MainTab, r)
    \/ ZUnmount(MainTab)
    \/ ZAddMotivation(MainTab)

SpecChat == InitEngine /\ [][NextChat]_vars

\* ------------------------------------------------------------------------
\* The Insights poll next to a chat whose replies report the top intensity
\* ------------------------------------------------------------------------
TopIntensity == 10

PollResponses == {ResponseError, ResponseWith(<<EmotionSad>>, TopIntensity)}

NextPoll ==
    \/ ZMount(MainTab)
    \/ ZCommit(MainTab)
    \/ \E text \in HistoryTexts : ZSend(MainTab, text)
    \/ \E r \in PollResponses : ZRespond(MainTab, r)
    \/ ZUnmount(MainTab)
    \/ NextDay(MaxDate)
    \/ InsMount
    \/ InsUpdate
    \/ InsUnmount

SpecPoll == InitEngine /\ [][NextPoll]_vars

\* ------------------------------------------------------------------------
\* The chat with replies that flag a crisis
\* ------------------------------------------------------------------------
CrisisResponses ==
    Responses
    \cup { Flagged(r) : r \in {ResponseEmotion, ResponsePlain,
                               ResponseWith(<<EmotionJoy>>, MinIntensity)} }

NextCrisis ==
    \/ ZMount(MainTab)
    \/ ZCommit(MainTab)
    \/ \E text \in UserTexts : ZSend(MainTab, text)
    \/ \E r \in CrisisResponses : ZRespond(MainTab, r)
    \/ \E r \in CrisisResponses : ZOrphanRespond(MainTab, r)
    \/ ZUnmount(MainTab)

SpecCrisis == InitEngine /\ [][NextCrisis]_vars

\* the same chat, in which React renders what is queued and the call that
\* was made comes back: fetch settles, with a reply or with an error
SpecCycle ==
    /\ InitEngine
    /\ [][NextCrisis]_vars
    /\ WF_vars(ZCommit(MainTab))
    /\ WF_vars(\E r \in CrisisResponses : ZRespond(MainTab, r))

\* ------------------------------------------------------------------------
\* The Insights page with its three number fields being typed into
\* ------------------------------------------------------------------------
TextEmpty   == <<>>
TextLetters == <<"a", "b", "c">>
TextZero    == <<"0">>
TextFive    == <<"5">>
MetricTexts == {TextEmpty, TextLetters, TextZero, TextFive}

NextMetrics ==
    \/ ZMount(MainTab)
    \/ ZCommit(MainTab)
    \/ \E text \in HistoryTexts : ZSend(MainTab, text)
    \/ \E r \in HistoryResponses : ZRespond(MainTab, r)
    \/ InsMount
    \/ InsUpdate
    \/ \E field \in MetricFields, text \in MetricTexts : InsEdit(field, text)
    \/ InsUnmount

SpecMetrics == InitEngine /\ [][NextMetrics]_vars

\* ------------------------------------------------------------------------
\* The Exercises page of a logged-in user
\* ------------------------------------------------------------------------
NotExercise == <<classifyVars, dashVars, averageVars, engineVars, providerVars>>

\* the page opens: useEffect(() => { fetchProgress(); }, [user])
ExMount ==
    /\ ~exMounted
    /\ exMounted' = TRUE
    /\ progress' = None
    /\ exFetching' = exFetching + 1
    /\ UNCHANGED <<userProgress, exDay, exCalls, exInits, NotExercise>>

\* the select of a fetchProgress is answered, and the rest of fetchProgress
\* up to its second await runs: with no row, the zero counters are shown
\* and the initialising upsert is sent
ExFetched ==
    /\ exFetching > 0
    /\ exFetching' = exFetching - 1
    /\ IF userProgress = None
       THEN /\ progress' = IF exMounted THEN Some(Counters(InitialRow(exDay))) ELSE progress
            /\ exInits' = exInits \cup {exDay}
       ELSE /\ progress' = IF exMounted THEN Some(Counters(Get(userProgress))) ELSE progress
            /\ UNCHANGED exInits
    /\ UNCHANGED <<userProgress, exDay, exMounted, exCalls, NotExercise>>

\* an initialising upsert reaches the table
ExInitialised(day) ==
    /\ day \in exInits
    /\ exInits' = exInits \ {day}
    /\ userProgress' = Some(InitialRow(day))
    /\ UNCHANGED <<exDay, exMounted, progress, exCalls, exFetching, NotExercise>>

\* an exercise of `duration` minutes is completed: handleExerciseComplete
\* up to its first await
ExComplete(c, duration) ==
    /\ exMounted
    /\ exCalls[c].pc = "idle"
    /\ exCalls' = [exCalls EXCEPT ![c] = StartedCall(duration)]
    /\ UNCHANGED <<userProgress, exDay, exMounted, progress, exFetching, exInits, NotExercise>>

\* start-exercise has returned and the select is answered: the new counters
\* are computed from the row read and the upsert is sent
ExRead(c) ==
    /\ exCalls[c].pc = "started"
    /\ exCalls' = [exCalls EXCEPT ![c] =
                      WritingCall(@.duration, CompletedRow(userProgress, @.duration, exDay))]
    /\ UNCHANGED <<userProgress, exDay, exMounted, progress, exFetching, exInits, NotExercise>>

\* the upsert reaches the table; the toast is shown and fetchProgress called
ExWritten(c) ==
    /\ exCalls[c].pc = "upsert"
    /\ userProgress' = exCalls[c].row
    /\ exCalls' = [exCalls EXCEPT ![c] = DoneCall(@.duration)]
    /\ exFetching' = exFetching + 1
    /\ UNCHANGED <<exDay, exMounted, progress, exInits, NotExercise>>

\* midnight passes
ExNextDay ==
    /\ exDay < MaxExDay
    /\ exDay' = exDay + 1
    /\ UNCHANGED <<userProgress, exMounted, progress, exCalls, exFetching, exInits, NotExercise>>

NextExercise ==
    \/ ExMount
    \/ ExFetched
    \/ \E day \in 1 .. MaxExDay : ExInitialised(day)
    \/ \E c \in Calls, duration \in Durations : ExComplete(c, duration)
    \/ \E c \in Calls : ExRead(c)
    \/ \E c \in Calls : ExWritten(c)
    \/ ExNextDay

SpecExercise == InitEngine /\ [][NextExercise]_vars

\* ------------------------------------------------------------------------
\* C1  Last-write-wins per day.  Once updateFromStorage has run after the
\* most recent mood signal of the current date (whatever produced it: the
\* local heuristic at send, the remote inference, the fallback
\* classification of the reply) and React has rendered what was queued, the
\* entry of that date in the Insights history is that signal.
\* ------------------------------------------------------------------------
\* the history entry a signal amounts to
EntryOfSignal(sig) == MoodEntry(sig.date, sig.todayMood, TodayValue(sig.moodScore))

\* updateFromStorage ran after everything else that happened
Reconciled == insMounted /\ insLast # "stale"

C1_LastSignalWins ==
    ( /\ Reconciled
      /\ zPending[MainTab] = <<>>
      /\ IsSome(lastSignal)
      /\ Get(lastSignal).date = today )
    => /\ insMoodData # <<>>
       /\ insMoodData[Len(insMoodData)] = EntryOfSignal(Get(lastSignal))

\* ------------------------------------------------------------------------
\* C2  The Insights history holds at most one entry per date, and after
\* updateFromStorage has run on a date with a mood persisted, exactly one
\* entry of that date, whether the entry it replaced was the same or another.
\* ------------------------------------------------------------------------
EntriesOf(date) == { i \in DOMAIN insMoodData : insMoodData[i].date = date }

C2_OneEntryPerDate ==
    /\ \A i, j \in DOMAIN insMoodData :
          insMoodData[i].date = insMoodData[j].date => i = j
    /\ (Reconciled /\ IsSome(lsZenoraMood)) => Cardinality(EntriesOf(today)) = 1

\* updateFromStorage replaced today's entry by a different one, older
\* entries being present
C2_Witness ==
    /\ insMounted
    /\ insLast = "different"
    /\ Len(insMoodData) >= 2
    /\ Cardinality(EntriesOf(today)) = 1

\* updateFromStorage ran twice on the same persisted mood
C2_WitnessSame ==
    /\ insMounted
    /\ insLast = "same"
    /\ Len(insMoodData) >= 2
    /\ Cardinality(EntriesOf(today)) = 1
\* ------------------------------------------------------------------------
\* C3
\* ------------------------------------------------------------------------
\* The rule table of the classifier, in priority order.
RuleTable ==
    << [keywords |-> {kwSad, kwTired, kwUpset},  label |-> <<"s","a","d">>,                 score |-> 45],
       [keywords |-> {kwAngry, kwMad},           label |-> <<"a","n","g","r","y">>,         score |-> 35],
       [keywords |-> {kwHappy, kwGreat, kwGood}, label |-> <<"h","a","p","p","y">>,         score |-> 85],
       [keywords |-> {kwAnxious, kwWorried},     label |-> <<"a","n","x","i","o","u","s">>, score |-> 55],
       [keywords |-> {kwRelax, kwCalm},          label |-> <<"c","a","l","m">>,             score |-> 80] >>

NeutralRule == [label |-> <<"n","e","u","t","r","a","l">>, score |-> 70]

SameLetter(a, b) == a = b \/ LowerChar(a) = b \/ a = LowerChar(b)

\* keyword k occurs in text t at some position, letter case ignored
OccursIgnoringCase(k, t) ==
    \E i \in 1..Len(t) :
        /\ i + Len(k) - 1 <= Len(t)
        /\ \A p \in 1..Len(k) : SameLetter(t[i + p - 1], k[p])

MatchingRules(t) ==
    { r \in DOMAIN RuleTable : \E k \in RuleTable[r].keywords : OccursIgnoringCase(k, t) }

FirstRule(t) ==
    IF MatchingRules(t) = {}
    THEN NeutralRule
    ELSE LET r == CHOOSE x \in MatchingRules(t) : \A y \in MatchingRules(t) : x <= y
         IN  [label |-> RuleTable[r].label, score |-> RuleTable[r].score]

\* C3: for every text, the empty one included, analyzeLocalMood returns the
\* label and score of the first rule of the table one of whose keywords occurs
\* in the text as a case-insensitive substring, and neutral 70 when none does.
C3_FirstMatchingRuleWins ==
    IsSome(localMood) =>
        /\ toLowerCase(Get(localMood).mood) = FirstRule(message).label
        /\ Get(localMood).score = FirstRule(message).score

\* a text holding a rule-1 keyword in capitals after a rule-3 keyword has been classified
C3_Witness ==
    /\ IsSome(localMood)
    /\ includes(message, kwHappy)
    /\ includes(message, <<"S","A","D">>)
    /\ Get(localMood).score = 45

\* ------------------------------------------------------------------------
\* C4
\* ------------------------------------------------------------------------
Today == toDateString(clock)

DaysWithEntry == { toDateString(t) : t \in moodEntries }

\* the length of the run of consecutive days with an entry that ends today
RunEndingToday ==
    CHOOSE k \in 0..(Today + 1) :
        /\ \A i \in 0..(k - 1) : (Today - i) \in DaysWithEntry
        /\ (Today - k) \notin DaysWithEntry

\* C4: the streak computed by fetchStreak is the number of consecutive
\* calendar days ending today that each have an entry, counting a day with
\* several entries once, and is 0 whenever today has no entry.
C4_StreakIsRunEndingToday ==
    streakFresh =>
        /\ streak = RunEndingToday
        /\ (Today \notin DaysWithEntry => streak = 0)

\* a streak of 3 computed over a day with two entries, a gap, and an older entry
C4_Witness ==
    /\ streakFresh
    /\ streak = 3
    /\ \E t \in moodEntries : (PreviousDay(clock) < t) /\ t # clock /\ toDateString(t) = Today
    /\ clock \in moodEntries
    /\ \E t \in moodEntries : toDateString(t) < Today - 3

\* the streak is 0 with no entry today after a run that ended yesterday
C4_WitnessNoGraceDay ==
    /\ streakFresh
    /\ streak = 0
    /\ Today \notin DaysWithEntry
    /\ {Today - 1, Today - 2} \subseteq DaysWithEntry

\* ------------------------------------------------------------------------
\* C5
\* ------------------------------------------------------------------------
SumOfValues == LET S[i \in 0..Len(data)] == IF i = 0 THEN 0 ELSE S[i - 1] + data[i].value
               IN  S[Len(data)]

\* C5: for a history of 0 to 7 entries the average is the arithmetic mean of
\* the values rounded to one decimal place (it is within half a tenth of the
\* mean, an exact half rounded up), and it is 0 for the empty history.
C5_AverageIsRoundedMean ==
    IsSome(average) =>
        LET a == Get(average)
            n == Len(data)
        IN  /\ n = 0 => a = 0
            /\ n > 0 => /\ 2 * a * n - n <= 20 * SumOfValues
                        /\ 20 * SumOfValues < 2 * a * n + n

\* the mean 9/4 = 2.25 of a four-entry history has been rounded to 2.3
C5_Witness ==
    /\ IsSome(average)
    /\ Len(data) = 4
    /\ SumOfValues = 9
    /\ Get(average) = 23

\* the empty history has been averaged
C5_WitnessEmpty ==
    /\ IsSome(average)
    /\ data = <<>>
    /\ Get(average) = 0


\* ------------------------------------------------------------------------
\* C6  The Insights history never holds more than 7 entries; while the
\* screen is mounted it holds, oldest first, the dates recorded since the
\* mount, and of more than 7 such dates the 7 most recent.
\* ------------------------------------------------------------------------
\* the k largest members of a set of dates
MostRecent(dates, k) == { d \in dates : Cardinality({ e \in dates : e > d }) < k }

DatesHeld == { insMoodData[i].date : i \in DOMAIN insMoodData }

C6_SevenMostRecentDates ==
    /\ Len(insMoodData) <= HistoryCap
    /\ insMounted =>
          /\ DatesHeld = MostRecent(insRecorded, HistoryCap)
          /\ \A i, j \in DOMAIN insMoodData :
                i < j => insMoodData[i].date < insMoodData[j].date

\* nine successive dates recorded: the oldest two are gone
C6_Witness ==
    /\ insMounted
    /\ insRecorded = 1 .. 9
    /\ Len(insMoodData) = HistoryCap
    /\ DatesHeld = 3 .. 9

\* ------------------------------------------------------------------------
\* C7  A mood persisted by one screen eventually shows on every open screen
\* that displays the mood: again and again each mounted Zenora screen, in
\* whichever tab, holds the persisted mood, and the mounted Insights screen
\* holds it as today's entry.
\* ------------------------------------------------------------------------
ZenoraShowsPersistedMood(z) ==
    zMounted[z] => /\ IsSome(lsZenoraMood)
                   /\ MoodOf(zMoodData[z]) = MoodOf(ParseMoodData(Get(lsZenoraMood)))

InsightsShowsPersistedMood ==
    (insMounted /\ IsSome(lsZenoraMood)) =>
        /\ insMoodData # <<>>
        /\ insMoodData[Len(insMoodData)] = TodayMoodEntry(Get(lsZenoraMood), today)

C7_VisibleInEveryContext ==
    /\ []<>InsightsShowsPersistedMood
    /\ \A z \in Tabs : []<>ZenoraShowsPersistedMood(z)

\* the part of C7 that the interval of the Insights screen delivers
C7_InsightsCatchesUp == []<>InsightsShowsPersistedMood

\* ------------------------------------------------------------------------
\* C8  MoodProvider persists before it notifies: whenever one of its events
\* reaches a listener, localStorage["zenora_today_mood"] already holds the
\* text of the event's mood (zenora:mood-change) or nothing
\* (zenora:mood-clear), never the value from before the change.
\* ------------------------------------------------------------------------
C8_PersistedBeforeNotified ==
    \A p \in Tabs :
        IsSome(pEvent[p]) =>
            LET e == Get(pEvent[p]) IN
            /\ e.type \in {EventMoodChange, EventMoodClear}
            /\ e.type = EventMoodChange =>
                  /\ IsSome(e.detail)
                  /\ e.seen = Some(StringifyMood(Get(e.detail)))
            /\ e.type = EventMoodClear => e.seen = None

\* a change from one persisted mood to another has been notified, and a
\* clear of a persisted mood in the other tab
C8_Witness ==
    \E p, q \in Tabs :
        /\ IsSome(pEvent[p]) /\ IsSome(pEvent[q])
        /\ Get(pEvent[p]).type = EventMoodChange
        /\ IsSome(Get(pEvent[p]).before)
        /\ Get(pEvent[p]).before # Get(pEvent[p]).seen
        /\ Get(pEvent[q]).type = EventMoodClear
        /\ IsSome(Get(pEvent[q]).before)

\* ------------------------------------------------------------------------
\* C9  A reload observes the last accepted signal: with the Zenora screen
\* mounted (its mount effects have run) and no ai-chat call outstanding,
\* localStorage["zenora-mood"] carries the mood signal persisted last, and
\* so does state moodData once React has rendered what the effects queued.
\* ------------------------------------------------------------------------
\* the Zenora screen of tab z is mounted and no call of it is under way
ZenoraIdle(z) ==
    /\ zMounted[z]
    /\ ~zLoading[z]
    /\ zRequest[z] = None
    /\ zOrphan[z] = None

C9_ReloadObservesLastSignal ==
    ( /\ ZenoraIdle(MainTab)
      /\ IsSome(lastSignal)
      /\ Get(lastSignal).persisted )
    => /\ IsSome(lsZenoraMood)
       /\ MoodOf(ParseMoodData(Get(lsZenoraMood))) = MoodOfSignal(Get(lastSignal))
       /\ zPending[MainTab] = <<>> =>
              MoodOf(zMoodData[MainTab]) = MoodOfSignal(Get(lastSignal))

\* ------------------------------------------------------------------------
\* C10  Round trip of the history: when the Insights screen mounts again
\* and nothing was written since it reconciled last (its newest entry is
\* still what localStorage and the calendar give), its history is what it
\* was when it unmounted.
\* ------------------------------------------------------------------------
\* insMoodData, kept from the unmount, is in step with localStorage
HistoryUpToDate ==
    /\ insMoodData # <<>>
    /\ IsSome(lsZenoraMood)
    /\ insMoodData[Len(insMoodData)] = TodayMoodEntry(Get(lsZenoraMood), today)

C10_HistoryRoundTrip ==
    [][ (~insMounted /\ insMounted' /\ HistoryUpToDate) => insMoodData' = insMoodData ]_vars

\* ------------------------------------------------------------------------
\* C11  Corrupt-storage recovery: whatever text a persisted key holds, no
\* read of it (MoodProvider's initialiser, Zenora's load effect, Insights'
\* updateFromStorage and metrics loader) raises an exception, and the reader
\* starts from the empty value.
\* ------------------------------------------------------------------------
C11_NoReadThrows == thrown = {}

\* the part of C11 that MoodProvider's try/catch delivers: mounting on a
\* text that is no JSON starts from no mood
C11_ProviderStartsEmpty ==
    [][ \A p \in Tabs :
          ( /\ ~pMounted[p] /\ pMounted'[p]
            /\ IsSome(lsTodayMood) /\ ~IsJson(Get(lsTodayMood)) )
          => pMood'[p] = None ]_vars

\* ------------------------------------------------------------------------
\* C12  clear resets to empty everywhere: once the persisted mood is absent
\* and the poll has run, the Insights history is empty; once
\* zenora_today_mood is absent and no provider effect is due, no mounted
\* MoodProvider holds a mood.
\* ------------------------------------------------------------------------
NoEffectDue == \A p \in Tabs : ~pEffect[p]

C12_ClearEmptiesEveryContext ==
    /\ (Reconciled /\ lsZenoraMood = None) => insMoodData = <<>>
    /\ (lsTodayMood = None /\ NoEffectDue) =>
          \A p \in Tabs : pMounted[p] => pMood[p] = None

\* the part of C12 that clearMood delivers in its own tab: the clear event
\* is dispatched with the key removed and the provider's mood gone
C12_ClearNotifiesOwnTab ==
    [][ \A p \in Tabs :
          (pMounted[p] /\ pEffect[p] /\ ~pEffect'[p] /\ pMood[p] = None)
          => /\ lsTodayMood' = None
             /\ IsSome(pEvent'[p])
             /\ Get(pEvent'[p]).type = EventMoodClear ]_vars

\* ------------------------------------------------------------------------
\* C13  A reply that carries emotionAnalysis supersedes the local mood of
\* the same message: when handleSendMessage of a mounted screen receives
\* it, localStorage["zenora-mood"] carries the remote label and score at
\* once, and state moodData does with the render of the queued updates.
\* ------------------------------------------------------------------------
\* label and score that the analysis of reply r stands for
ExpectedRemoteMood(r) ==
    LET analysis == Get(r.emotionAnalysis)
        emotion  == IF analysis.emotions = <<>> THEN MoodCalm ELSE analysis.emotions[1]
    IN  << TodayMoodString(EmojiMap(emotion), Capitalize(emotion)),
           RemoteScore(analysis.intensity) >>

\* state moodData as the next render will show it
NextRenderedMoodData(z) == ReduceMoodData(zMoodData[z], zPending[z])

C13_RemoteSupersedesLocal ==
    [][ \A r \in ChatResponses :
          (IsSome(r.emotionAnalysis) /\ ZRespond(MainTab, r))
          => /\ IsSome(lsZenoraMood')
             /\ MoodOf(ParseMoodData(Get(lsZenoraMood'))) = ExpectedRemoteMood(r)
             /\ MoodOf(NextRenderedMoodData(MainTab)') = ExpectedRemoteMood(r) ]_vars

\* the screen has rendered the remote mood of a message it had classified
\* 'Sad' or 'Calm' itself, and the same mood is persisted
C13_Witness ==
    /\ zMounted[MainTab]
    /\ zPending[MainTab] = <<>>
    /\ ~zLoading[MainTab]
    /\ MoodOf(zMoodData[MainTab]) = ExpectedRemoteMood(ResponseEmotion)
    /\ MoodOf(ParseMoodData(Get(lsZenoraMood))) = ExpectedRemoteMood(ResponseEmotion)

\* ------------------------------------------------------------------------
\* C14  Remote failure falls back to the local mood of the outgoing
\* message: handleSendMessage sets and persists analyzeLocalMood(message)
\* when it sends; when ai-chat fails, nothing is thrown out of the handler,
\* nothing persisted changes, and the screen renders that local mood with
\* isLoading off.  "I'm really anxious about tomorrow" gives Anxious, 55.
\* ------------------------------------------------------------------------
\* label and score of analyzeLocalMood(text), as todayMood and moodScore
LocalMoodAsShown(text) ==
    LET m == analyzeLocalMood(text) IN <<TodayMoodString(m.emoji, m.mood), m.score>>

AnxiousScore == 55

C14_FailureKeepsLocalMood ==
    [][ /\ \A text \in ChatTexts :
             ZSend(MainTab, text)
             => /\ MoodOf(zMoodData'[MainTab]) = LocalMoodAsShown(text)
                /\ MoodOf(ParseMoodData(Get(lsZenoraMood'))) = LocalMoodAsShown(text)
        /\ \A r \in ChatResponses :
             (~r.ok /\ ZRespond(MainTab, r))
             => /\ MoodOf(NextRenderedMoodData(MainTab)') =
                      LocalMoodAsShown(Get(zRequest[MainTab]).text)
                /\ ~ReduceIsLoading(zLoading'[MainTab], zPending'[MainTab])
                /\ lsZenoraMood' = lsZenoraMood
                /\ thrown' = thrown
        /\ LocalMoodAsShown(TextAnxious) =
              <<TodayMoodString(EmojiAnxious, MoodAnxious), AnxiousScore>> ]_vars

\* ai-chat has just failed on "I'm really anxious about tomorrow": only
\* setIsLoading(false) is queued; screen and storage hold Anxious, 55
C14_Witness ==
    /\ zMounted[MainTab]
    /\ zPending[MainTab] = <<SetIsLoading(FALSE)>>
    /\ MoodOf(zMoodData[MainTab]) = <<TodayMoodString(EmojiAnxious, MoodAnxious), AnxiousScore>>
    /\ MoodOf(ParseMoodData(Get(lsZenoraMood))) = MoodOf(zMoodData[MainTab])
    /\ thrown = {}

\* ------------------------------------------------------------------------
\* C15  A reply without emotionAnalysis is classified by its own text: when
\* a mounted screen receives it, the mood its next render shows is
\* analyzeLocalMood(data.response), not the mood of the user's message, and
\* the render that applies it persists that mood.
\* ------------------------------------------------------------------------
\* the updater functions among the queued updates of tab z
QueuedPatches(z) == { i \in DOMAIN zPending[z] : zPending[z][i].op = "patchMoodData" }

C15_FallbackClassifiesReply ==
    [][ /\ \A r \in ChatResponses :
             (r.ok /\ ~IsSome(r.emotionAnalysis) /\ ZRespond(MainTab, r))
             => /\ MoodOf(NextRenderedMoodData(MainTab)') = LocalMoodAsShown(r.response)
                /\ QueuedPatches(MainTab)' # {}
        /\ (QueuedPatches(MainTab) # {} /\ ZCommit(MainTab))
             => /\ MoodOf(zMoodData'[MainTab]) = MoodOf(NextRenderedMoodData(MainTab))
                /\ MoodOf(ParseMoodData(Get(lsZenoraMood'))) = MoodOf(zMoodData'[MainTab]) ]_vars

\* the reply "good to hear" to a message classified otherwise has been
\* rendered: screen and storage hold Happy, 85
C15_Witness ==
    /\ zMounted[MainTab]
    /\ zPending[MainTab] = <<>>
    /\ ~zLoading[MainTab]
    /\ IsSome(lastSignal)
    /\ MoodOfSignal(Get(lastSignal)) = LocalMoodAsShown(ReplyText)
    /\ MoodOf(zMoodData[MainTab]) = LocalMoodAsShown(ReplyText)
    /\ MoodOf(ParseMoodData(Get(lsZenoraMood))) = LocalMoodAsShown(ReplyText)
    /\ \A text \in ChatTexts : LocalMoodAsShown(text) # LocalMoodAsShown(ReplyText)

\* ------------------------------------------------------------------------
\* C16  A reply that arrives after its Zenora screen unmounted is still
\* merged into localStorage["zenora-mood"]: the remote mood when it carries
\* emotionAnalysis, the classification of its text when it does not; and
\* no state of a screen changes.
\* ------------------------------------------------------------------------
\* the mood that reply r stands for
MoodOfReply(r) ==
    IF IsSome(r.emotionAnalysis) THEN ExpectedRemoteMood(r) ELSE LocalMoodAsShown(r.response)

C16_LateReplyIsMerged ==
    [][ \A r \in ChatResponses :
          (r.ok /\ ZOrphanRespond(MainTab, r))
          => /\ IsSome(lsZenoraMood')
             /\ MoodOf(ParseMoodData(Get(lsZenoraMood'))) = MoodOfReply(r)
             /\ UNCHANGED <<zMounted, zMoodData, zPending, zLoading>> ]_vars

\* the half of C16 that line 187 delivers: a late reply with an analysis
C16_LateRemoteReplyIsMerged ==
    [][ \A r \in ChatResponses :
          (r.ok /\ IsSome(r.emotionAnalysis) /\ ZOrphanRespond(MainTab, r))
          => /\ MoodOf(ParseMoodData(Get(lsZenoraMood'))) = MoodOfReply(r)
             /\ UNCHANGED <<zMounted, zMoodData, zPending, zLoading>> ]_vars

\* ------------------------------------------------------------------------
\* C17  Within one Zenora screen signals take effect in submission order:
\* a call is outstanding only while isLoading is on, a submission made
\* then (or a blank one) is ignored, a message is accepted only with no
\* call of the screen outstanding and sets the mood of its own text, and
\* the reply that arrives is the reply to that last message and decides
\* the mood that is rendered next.
\* ------------------------------------------------------------------------
C17_SubmissionOrderKept ==
    [][ /\ IsSome(zRequest'[MainTab]) => (zMounted'[MainTab] /\ zLoading'[MainTab])
        /\ \A text \in ChatTexts :
             /\ (zLoading[MainTab] \/ IsBlank(text)) => ~ZSend(MainTab, text)
             /\ ZSend(MainTab, text)
                => /\ zRequest[MainTab] = None
                   /\ Get(zRequest'[MainTab]).text = text
                   /\ MoodOf(zMoodData'[MainTab]) = LocalMoodAsShown(text)
        /\ \A r \in ChatResponses :
             (r.ok /\ ZRespond(MainTab, r))
             => /\ MoodOf(NextRenderedMoodData(MainTab)') = MoodOfReply(r)
                /\ zRequest'[MainTab] = None ]_vars

\* a second message is in flight: the closure of its send holds the remote
\* mood that the reply to an earlier message left, the screen shows the
\* local mood of the new text
C17_Witness ==
    /\ zMounted[MainTab]
    /\ zLoading[MainTab]
    /\ IsSome(zRequest[MainTab])
    /\ MoodOf(Get(zRequest[MainTab]).moodData) = ExpectedRemoteMood(ResponseEmotion)
    /\ MoodOf(zMoodData[MainTab]) = LocalMoodAsShown(Get(zRequest[MainTab]).text)
    /\ MoodOf(zMoodData[MainTab]) # MoodOf(Get(zRequest[MainTab]).moodData)

\* ------------------------------------------------------------------------
\* C18  The poll is idempotent: updateFromStorage run while the history
\* already ends with the entry that localStorage and the calendar give
\* changes neither moodData nor averageMood nor the persisted insightsData.
\* ------------------------------------------------------------------------
C18_PollIsIdempotent ==
    [][ (insMounted /\ HistoryUpToDate /\ InsUpdate)
        => /\ insMoodData' = insMoodData
           /\ insAverageMood' = insAverageMood
           /\ lsInsightsData' = lsInsightsData ]_vars

\* the part of C18 that holds: the history itself is left as it is
C18_PollKeepsHistory ==
    [][ (insMounted /\ HistoryUpToDate /\ InsUpdate) => insMoodData' = insMoodData ]_vars

\* ------------------------------------------------------------------------
\* C19  Every history entry is filed under the date on which its mood was
\* produced: the mood of the last persisted signal, produced on date D, is
\* never found in the history as the entry of a date later than D.
\* ------------------------------------------------------------------------
C19_EntryFiledUnderSampleDate ==
    (IsSome(lastSignal) /\ Get(lastSignal).persisted)
    => \A i \in DOMAIN insMoodData :
         ( /\ insMoodData[i].mood = Get(lastSignal).todayMood
           /\ insMoodData[i].value = TodayValue(Get(lastSignal).moodScore) )
         => insMoodData[i].date <= Get(lastSignal).date

\* the part of C19 that holds: no entry is filed under a date still to come
C19_NoEntryAfterToday ==
    \A i \in DOMAIN insMoodData : insMoodData[i].date <= today

\* ------------------------------------------------------------------------
\* C20  For every intensity that ai-chat reports, the moodScore recorded is
\* 100 - 10 * intensity clamped to 0 .. 100 (0 from intensity 10 on, 100 up
\* to intensity 0), so that the persisted moodScore is within 0 .. 100
\* after any sequence of local and remote signals.
\* ------------------------------------------------------------------------
ClampedScore(intensity) ==
    LET raw == 100 - 10 * intensity
    IN  IF raw < 0 THEN 0 ELSE IF raw > 100 THEN 100 ELSE raw

PersistedScore(saved) == ParseMoodData(Get(saved)).moodScore

C20_RemoteScoreClamped ==
    [][ /\ \A r \in ChatResponses :
             ( /\ IsSome(r.emotionAnalysis)
               /\ ZRespond(MainTab, r) \/ ZOrphanRespond(MainTab, r) )
             => LET intensity == Get(r.emotionAnalysis).intensity IN
                /\ IsSome(lsZenoraMood')
                /\ PersistedScore(lsZenoraMood') = ClampedScore(intensity)
                /\ intensity >= 10 => PersistedScore(lsZenoraMood') = 0
                /\ intensity <= 0 => PersistedScore(lsZenoraMood') = 100
        /\ IsSome(lsZenoraMood') => PersistedScore(lsZenoraMood') \in 0 .. 100 ]_vars

\* a reply of intensity 10 or more was recorded: the persisted score is 0
C20_Witness ==
    /\ IsSome(lsZenoraMood)
    /\ PersistedScore(lsZenoraMood) = 0
    /\ IsSome(lastSignal)
    /\ Get(lastSignal).moodScore = 0

\* ------------------------------------------------------------------------
\* C21  The crisis flag is propagated unmodified: the reply of ai-chat
\* raises the crisis notice if and only if it carries the crisis flag,
\* whatever emotion the message or the reply was classified as, for a
\* mounted screen and for one that was left meanwhile.
\* ------------------------------------------------------------------------
C21_CrisisFlagPropagated ==
    [][ \A r \in CrisisResponses :
          (ZRespond(MainTab, r) \/ ZOrphanRespond(MainTab, r))
          => (ToastCrisis \in zToasts'[MainTab] <=> r.isCrisis) ]_vars

\* a flagged reply whose analysis names a happy emotion was handled, after a
\* message that the local heuristic took for calm
C21_Witness ==
    /\ ToastCrisis \in zToasts[MainTab]
    /\ IsSome(lsZenoraMood)
    /\ MoodOf(ParseMoodData(Get(lsZenoraMood)))
         = ExpectedRemoteMood(ResponseWith(<<EmotionJoy>>, MinIntensity))

\* ------------------------------------------------------------------------
\* C22  The statistics are derived from the history: whenever the Insights
\* screen is mounted and has rendered, averageMood is
\* calculateAverageMood(moodData), so 0 for an empty history, whatever
\* insightsData stores.
\* ------------------------------------------------------------------------
C22_AverageIsDerived ==
    insMounted => insAverageMood = calculateAverageMood(insMoodData)

\* the part of C22 that holds: a history whose average is not 0 is shown
\* with its average
C22_NonZeroAverageIsDerived ==
    (insMounted /\ calculateAverageMood(insMoodData) # 0)
    => insAverageMood = calculateAverageMood(insMoodData)

\* ------------------------------------------------------------------------
\* C23  Text that is no number, or no text at all, typed into the streak,
\* time-practiced or exercises field stores 0, and neither the three fields
\* nor averageMood ever hold NaN (or null, its persisted form), in memory
\* or in insightsData.
\* ------------------------------------------------------------------------
\* the state of a number field
FieldState(field) ==
    CASE field = "streak"        -> insStreak
      [] field = "timePracticed" -> insTimePracticed
      [] field = "exercises"     -> insExercises

C23_InvalidInputStoresZero ==
    [][ /\ \A field \in MetricFields, text \in MetricTexts :
             (InsEdit(field, text) /\ ParseInt(text) = NaN)
             => /\ FieldState(field)' = Num(0)
                /\ JsonField(Get(lsInsightsData'), field) = Num(0)
        /\ \A field \in MetricFields :
             /\ FieldState(field)' # NaN
             /\ (IsSome(lsInsightsData') /\ IsJson(Get(lsInsightsData')))
                  => JsonField(Get(lsInsightsData'), field) # NaN
        /\ insAverageMood' \in 0 .. 10 * MoodScale ]_vars

\* 5 was typed into the exercises field and text that is no number into the
\* streak field: streak holds 0, and so does insightsData
C23_Witness ==
    /\ insMounted
    /\ insStreak = Num(0)
    /\ insExercises = Num(5)
    /\ IsSome(lsInsightsData)
    /\ JsonField(Get(lsInsightsData), "streak") = Num(0)

\* ------------------------------------------------------------------------
\* C24  A mood update leaves the motivation list alone: the list that the
\* screen will render, and the persisted one, are the same after the local
\* update of a send and after the reply of ai-chat was applied as before,
\* so a note added while the call was in flight is still there.
\* ------------------------------------------------------------------------
PersistedMotivation(saved) == ParseMoodData(Get(saved)).motivation

C24_MoodUpdateKeepsMotivation ==
    [][ ( \/ \E text \in ChatTexts : ZSend(MainTab, text)
          \/ \E r \in ChatResponses : ZRespond(MainTab, r) )
        => /\ NextRenderedMoodData(MainTab)'.motivation
                = NextRenderedMoodData(MainTab).motivation
           /\ PersistedMotivation(lsZenoraMood') = PersistedMotivation(lsZenoraMood) ]_vars

\* the part of C24 that holds: the local update of the send and the
\* fallback classification of the reply keep the list of the screen, and
\* what they persist holds that list
C24_LocalUpdatesKeepMotivation ==
    [][ ( \/ \E text \in ChatTexts : ZSend(MainTab, text)
          \/ \E r \in ChatResponses :
                ~IsSome(r.emotionAnalysis) /\ ZRespond(MainTab, r) )
        => /\ NextRenderedMoodData(MainTab)'.motivation
                = NextRenderedMoodData(MainTab).motivation
           /\ lsZenoraMood' # lsZenoraMood
                => PersistedMotivation(lsZenoraMood')
                     = NextRenderedMoodData(MainTab)'.motivation ]_vars

\* ------------------------------------------------------------------------
\* C25  Without a mood signal there is no mood: as long as no message was
\* sent and no reply applied, whatever screens were opened, nothing is
\* persisted under "zenora-mood" and the Insights history is empty.
\* ------------------------------------------------------------------------
C25_NoMoodWithoutSignal ==
    lastSignal = None => (lsZenoraMood = None /\ insMoodData = <<>>)

\* the part of C25 that holds: with nothing persisted, opening the Insights
\* page records nothing
C25_InsightsAloneRecordsNothing ==
    lsZenoraMood = None => insMoodData = <<>>

\* ------------------------------------------------------------------------
\* C26  Every submitted message completes its cycle: isLoading, set by the
\* submission, is cleared again whether ai-chat replied or failed, and when
\* it is cleared exactly one assistant message was appended for the
\* submission and no call is outstanding, so that a message can be sent.
\* ------------------------------------------------------------------------
C26_RequestCycleCompletes ==
    /\ zLoading[MainTab] ~> ~zLoading[MainTab]
    /\ [][ (zLoading[MainTab] /\ ~zLoading'[MainTab] /\ zMounted'[MainTab])
           => /\ zReplies'[MainTab] = 1
              /\ zRequest'[MainTab] = None
              /\ \A text \in UserTexts : ~SubmissionIgnored(text, zLoading'[MainTab]) ]_vars

\* the cycle of a message whose call failed has completed
C26_Witness ==
    /\ zMounted[MainTab]
    /\ ~zLoading[MainTab]
    /\ zPending[MainTab] = <<>>
    /\ zReplies[MainTab] = 1
    /\ zToasts[MainTab] = {ToastError}

\* ------------------------------------------------------------------------
\* C27  A mounted Insights screen has exactly one reconciliation interval
\* and one storage listener, also after the effect re-ran because streak,
\* timePracticed or exercises changed; an unmounted one has none, so no
\* poll runs for it and timers do not pile up.
\* ------------------------------------------------------------------------
C27_OneTimerPerScreen ==
    /\ insMounted  => (insIntervals = 1 /\ insListeners = 1)
    /\ ~insMounted => (insIntervals = 0 /\ insListeners = 0 /\ ~ENABLED InsUpdate)

\* the effect re-ran twice, for the streak and for the exercises
C27_Witness ==
    /\ insMounted
    /\ insStreak = Num(5)
    /\ insExercises = Num(0)
    /\ insIntervals = 1
    /\ insListeners = 1

\* ------------------------------------------------------------------------
\* C28  Entered metrics survive a remount: when the Insights screen mounts
\* again, each of streak, timePracticed and exercises holds the value that
\* insightsData stored for it (the value the user set, 0 included), and
\* insightsData still stores it.
\* ------------------------------------------------------------------------
C28_MetricsSurviveRemount ==
    [][ (InsMount /\ insMounted' /\ IsSome(lsInsightsData))
        => \A field \in MetricFields :
             /\ FieldState(field)' = JsonField(Get(lsInsightsData), field)
             /\ JsonField(Get(lsInsightsData'), field)
                  = JsonField(Get(lsInsightsData), field) ]_vars

\* the part of C28 that holds: with no mood persisted, a value other than 0
\* is there again
C28_NonZeroSurvivesWithoutMood ==
    [][ (InsMount /\ insMounted' /\ IsSome(lsInsightsData) /\ lsZenoraMood = None)
        => \A field \in MetricFields :
             JsonField(Get(lsInsightsData), field) # Num(0)
             => /\ FieldState(field)' = JsonField(Get(lsInsightsData), field)
                /\ JsonField(Get(lsInsightsData'), field)
                     = JsonField(Get(lsInsightsData), field) ]_vars

\* with a mood persisted, no entered value is there again
C28_MoodPresentLosesMetrics ==
    [][ (InsMount /\ insMounted' /\ IsSome(lsZenoraMood))
        => /\ insStreak' = Num(DefaultStreak)
           /\ insTimePracticed' = Num(DefaultTimePracticed)
           /\ insExercises' = Num(DefaultExercises) ]_vars

\* ------------------------------------------------------------------------
\* C29  Each completed exercise adds exactly 1 to exercises_done and its
\* duration to minutes_practiced: once every completion has been written
\* and every fetchProgress has finished, the row holds the number of the
\* completions and the sum of their durations, however the reads and
\* upserts overlapped, and fetchProgress never lowers the counters.
\* ------------------------------------------------------------------------
DoneCalls == { c \in Calls : exCalls[c].pc = "done" }

RECURSIVE MinutesOf(_)
MinutesOf(calls) ==
    IF calls = {} THEN 0
    ELSE LET c == CHOOSE x \in calls : TRUE
         IN  exCalls[c].duration + MinutesOf(calls \ {c})

\* nothing of the Exercises page is in flight
ExQuiet ==
    /\ exFetching = 0
    /\ exInits = {}
    /\ \A c \in Calls : exCalls[c].pc \in {"idle", "done"}

C29_CountersAddUp ==
    /\ (ExQuiet /\ DoneCalls # {})
         => /\ userProgress # None
            /\ Get(userProgress).exercises_done = Cardinality(DoneCalls)
            /\ Get(userProgress).minutes_practiced = MinutesOf(DoneCalls)

\* the last clause of C29 on its own, which fails as well: the initialising
\* upsert of fetchProgress never lowers the stored counters
C29_FetchNeverLowers ==
    [][ (userProgress # None /\ \E day \in 1 .. MaxExDay : ExInitialised(day))
        => /\ Get(userProgress').exercises_done >= Get(userProgress).exercises_done
           /\ Get(userProgress').minutes_practiced >= Get(userProgress).minutes_practiced ]_vars

\* the part of C29 that holds: a completion that is written adds 1 and its
\* duration to the row that it read
C29_AddsToTheRowRead ==
    [][ \A c \in Calls :
          ExRead(c)
          => LET row == Get(exCalls'[c].row) IN
             /\ row.exercises_done
                  = (IF userProgress = None THEN 0 ELSE Get(userProgress).exercises_done) + 1
             /\ row.minutes_practiced
                  = (IF userProgress = None THEN 0 ELSE Get(userProgress).minutes_practiced)
                    + exCalls[c].duration ]_vars

\* two completions overlapped after the row had been initialised: one of
\* them is lost
C29_LostCompletion ==
    /\ ExQuiet
    /\ Cardinality(DoneCalls) = 2
    /\ userProgress # None
    /\ Get(userProgress).exercises_done = 1
    /\ progress = Some(Counters(Get(userProgress)))

\* ------------------------------------------------------------------------
\* C30  day_streak counts the days with a completed exercise: the first
\* completion after the row was initialised makes it 1, on whatever day;
\* the first completion of a later day than the last one adds exactly 1;
\* a further completion on the same day leaves it as it is.
\* ------------------------------------------------------------------------
\* the row that call c read holds no completion yet
FirstCompletion == userProgress # None /\ Get(userProgress).exercises_done = 0

C30_StreakCountsExerciseDays ==
    [][ \A c \in Calls :
          (ExRead(c) /\ userProgress # None)
          => LET before == Get(userProgress)
                 after  == Get(exCalls'[c].row)
             IN  /\ FirstCompletion => after.day_streak = 1
                 /\ (~FirstCompletion /\ before.last_exercise_at # exDay)
                      => after.day_streak = before.day_streak + 1
                 /\ (~FirstCompletion /\ before.last_exercise_at = exDay)
                      => after.day_streak = before.day_streak ]_vars

\* the part of C30 that holds: the completions after the first one
C30_LaterCompletionsCount ==
    [][ \A c \in Calls :
          (ExRead(c) /\ userProgress # None /\ ~FirstCompletion)
          => LET before == Get(userProgress)
                 after  == Get(exCalls'[c].row)
             IN  /\ before.last_exercise_at # exDay
                      => after.day_streak = before.day_streak + 1
                 /\ before.last_exercise_at = exDay
                      => after.day_streak = before.day_streak ]_vars
====
